---- MODULE Spec2Model ----
(***************************************************************************)
(* Virtual-code composition and diagnostic back-mapping of vue-tsgo:       *)
(* createMappings and the line/offset getters of core/codegen/index.ts and *)
(* createProject / check / parseDiagnostics of core/project.ts.            *)
(*                                                                         *)
(* A text is a sequence of one-character strings.  A JavaScript value      *)
(* that may be undefined or NaN is a set: {} for undefined/NaN, {n} for    *)
(* the number n.                                                           *)
(***************************************************************************)
EXTENDS Integers, Sequences, FiniteSets, TLC

VARIABLES
    lcText, lcOffset, lcPos, lcBack, lcPc,
    codes, blocks, built, mapPc, boundaries, script, emitted,
    sourceToTarget, targetToSource, includeSet, excludeSet, processed, disk,
    configPath, configs,
    pc, stdout, checkerExit, checkerRuns,
    parsed, groups, groupIdx, output, withoutError, result

lineVars == <<lcText, lcOffset, lcPos, lcBack, lcPc>>
mapVars == <<codes, blocks, built, mapPc, boundaries, script, emitted>>
projectVars == <<sourceToTarget, targetToSource, includeSet, excludeSet,
                 processed, disk, configPath, configs>>
checkVars == <<pc, stdout, checkerExit, checkerRuns,
               parsed, groups, groupIdx, output, withoutError, result>>
vars == <<lineVars, mapVars, projectVars, checkVars>>

NL == "\n"

(* Bounds of the model. *)
MaxLen == 4
MaxCodes == 3
MaxOffset == 1
MaxFileCodes == 2
MaxBlocks == 2
MaxRemapBlocks == 1
MaxNoise == 1
MaxCol == 3
MaxTildes == 2
MaxRows == 2
MaxCont == 1
MaxBoundaries == 2
MaxLiterals == 1
MaxIncludes == 2
MaxExcludes == 1
MaxReferences == 2
MaxUpward == 1
MaxImports == 2

Chars == {"a", NL}

RECURSIVE SeqsUpTo(_, _)
SeqsUpTo(S, n) ==
    IF n = 0 THEN {<<>>}
    ELSE LET shorter == SeqsUpTo(S, n - 1)
         IN shorter \cup {Append(s, c) : s \in {t \in shorter : Len(t) = n - 1}, c \in S}

Texts == SeqsUpTo(Chars, MaxLen)

(***************************************************************************)
(* Line/Offset index: createOffsetGetter and createLineAndColumnGetter.    *)
(***************************************************************************)

(* lineOffsets: [0] followed by i + 1 for every newline at index i         *)
(* (0-based indices; text[i] of the source is text[i + 1] here).           *)
RECURSIVE LineOffsetsFrom(_, _)
LineOffsetsFrom(text, i) ==
    IF i >= Len(text) THEN <<>>
    ELSE IF text[i + 1] = NL
         THEN <<i + 1>> \o LineOffsetsFrom(text, i + 1)
         ELSE LineOffsetsFrom(text, i + 1)

LineOffsets(text) == <<0>> \o LineOffsetsFrom(text, 0)

(* The getter returned by createOffsetGetter: lineOffsets[line - 1] +      *)
(* column - 1; an index outside the array reads undefined and the sum is   *)
(* NaN.                                                                    *)
createOffsetGetterClamped(text, line, column) ==
    LET lineOffsets == LineOffsets(text)
    IN IF line - 1 >= 0 /\ line - 1 < Len(lineOffsets)
       THEN {lineOffsets[line] + column - 1}
       ELSE {0}

createOffsetGetter(text, line, column) ==
    LET lineOffsets == LineOffsets(text)
    IN IF line - 1 >= 0 /\ line - 1 < Len(lineOffsets)
       THEN {lineOffsets[line] + column - 1}
       ELSE {}

(* The loop of the getter returned by createLineAndColumnGetter: line is   *)
(* the last index i, scanning upwards, reached before lineOffsets[i] >     *)
(* offset breaks the loop (0 when the first entry already exceeds it).     *)
RECURSIVE ScanLine(_, _, _, _)
ScanLine(lineOffsets, offset, i, line) ==
    IF i >= Len(lineOffsets) THEN line
    ELSE IF lineOffsets[i + 1] > offset THEN line
    ELSE ScanLine(lineOffsets, offset, i + 1, i)

(* Mutation: the scan breaks on >= instead of >, so an offset at a line    *)
(* start is placed on the line before.                                     *)
RECURSIVE ScanLineInclusive(_, _, _, _)
ScanLineInclusive(lineOffsets, offset, i, line) ==
    IF i >= Len(lineOffsets) THEN line
    ELSE IF lineOffsets[i + 1] >= offset /\ i > 0 THEN line
    ELSE ScanLineInclusive(lineOffsets, offset, i + 1, i)

createLineAndColumnGetterInclusive(text, offset) ==
    LET lineOffsets == LineOffsets(text)
        line == ScanLineInclusive(lineOffsets, offset, 0, 0)
    IN [line |-> line + 1, column |-> offset - lineOffsets[line + 1] + 1]

createLineAndColumnGetter(text, offset) ==
    LET lineOffsets == LineOffsets(text)
        line == ScanLine(lineOffsets, offset, 0, 0)
    IN [line |-> line + 1, column |-> offset - lineOffsets[line + 1] + 1]

NoPos == [line |-> 0, column |-> 0]

(***************************************************************************)
(* Fragments (the Code type of core/types.ts) and their metadata           *)
(* (CodeInformation).  verification is "absent", "true", "false" or the    *)
(* name of a policy object of codeFeatures; token is the __combineToken    *)
(* symbol, "" when the property is absent.                                 *)
(***************************************************************************)
CodeInformation(verification, token) ==
    [verification |-> verification, token |-> token]

NoData == CodeInformation("absent", "")

Literal(text) ==
    [lit |-> TRUE, text |-> text, source |-> "", offset |-> 0, data |-> NoData]

Mapped(text, source, offset, data) ==
    [lit |-> FALSE, text |-> text, source |-> source, offset |-> offset, data |-> data]

(* toString of muggle-string: the concatenation of the fragments' texts. *)
RECURSIVE toString(_)
toString(cs) ==
    IF cs = <<>> THEN <<>> ELSE Head(cs).text \o toString(Tail(cs))

(***************************************************************************)
(* createMappings.                                                         *)
(***************************************************************************)

OriginalMappingAfter(code, length) ==
    [sourceOffsets |-> <<code.offset>>,
     generatedOffsets |-> <<length + Len(code.text)>>,
     lengths |-> <<Len(code.text)>>,
     data |-> code.data]

(* The entry pushed for a mapped fragment met at a running length. *)
OriginalMapping(code, length) ==
    [sourceOffsets |-> <<code.offset>>,
     generatedOffsets |-> <<length>>,
     lengths |-> <<Len(code.text)>>,
     data |-> code.data]

(* First loop: one single-point mapping per mapped fragment, at the        *)
(* running generated length.                                               *)
RECURSIVE OriginalMappings(_, _, _)
OriginalMappings(cs, i, length) ==
    IF i > Len(cs) THEN <<>>
    ELSE IF cs[i].lit
         THEN OriginalMappings(cs, i + 1, length + Len(cs[i].text))
         ELSE <<OriginalMapping(cs[i], length)>>
              \o OriginalMappings(cs, i + 1, length + Len(cs[i].text))

NoTokens == [t \in {} |-> 0]

UnshiftMapping(target, mapping) ==
    [target EXCEPT
        !.sourceOffsets = mapping.sourceOffsets \o @,
        !.generatedOffsets = mapping.generatedOffsets \o @,
        !.lengths = mapping.lengths \o @]

PushMappingAndData(target, mapping) ==
    [target EXCEPT
        !.sourceOffsets = @ \o mapping.sourceOffsets,
        !.generatedOffsets = @ \o mapping.generatedOffsets,
        !.lengths = @ \o mapping.lengths,
        !.data = mapping.data]

(* target.sourceOffsets.push(...), target.generatedOffsets.push(...),      *)
(* target.lengths.push(...)                                                *)
PushMapping(target, mapping) ==
    [target EXCEPT
        !.sourceOffsets = @ \o mapping.sourceOffsets,
        !.generatedOffsets = @ \o mapping.generatedOffsets,
        !.lengths = @ \o mapping.lengths]

(* Second loop: tokens maps a combine token to the index, in mappings, of  *)
(* the mapping object first stored for it; later mappings of the token are *)
(* pushed onto that object's three arrays.                                 *)
RECURSIVE CombineMappings(_, _, _, _)
CombineMappings(originalMappings, i, mappings, tokens) ==
    IF i > Len(originalMappings) THEN mappings
    ELSE LET mapping == originalMappings[i]
             token == mapping.data.token
         IN IF token # ""
            THEN IF token \in DOMAIN tokens
                 THEN LET t == tokens[token]
                          target == mappings[t]
                          merged == PushMapping(target, mapping)
                      IN CombineMappings(originalMappings, i + 1,
                                         [mappings EXCEPT ![t] = merged], tokens)
                 ELSE CombineMappings(originalMappings, i + 1,
                                      Append(mappings, mapping),
                                      tokens @@ (token :> Len(mappings) + 1))
            ELSE CombineMappings(originalMappings, i + 1,
                                 Append(mappings, mapping), tokens)

(* Mutation: the second loop is left out, every fragment keeps its own entry. *)
createMappingsUnmerged(cs) ==
    OriginalMappings(cs, 1, 0)

(* Mutation: a later fragment of a known token is dropped instead of merged. *)
createMappingsFirstOnly(cs) ==
    LET originalMappings == OriginalMappings(cs, 1, 0)
        isFirst(i) == \A j \in 1..(i - 1) :
            originalMappings[j].data.token # originalMappings[i].data.token
        kept == {i \in 1..Len(originalMappings) :
                    originalMappings[i].data.token = "" \/ isFirst(i)}
        RECURSIVE Keep(_)
        Keep(i) == IF i > Len(originalMappings) THEN <<>>
                   ELSE (IF i \in kept THEN <<originalMappings[i]>> ELSE <<>>)
                        \o Keep(i + 1)
    IN Keep(1)

createMappings(cs) ==
    CombineMappings(OriginalMappings(cs, 1, 0), 1, <<>>, NoTokens)

(* The rebasing map of createVirtualFile: a mapped fragment whose source   *)
(* names a known block gets the block's innerStart added and its source    *)
(* reset; blks maps block names to innerStart.                             *)
RebaseCodeMainToo(code, blks) ==
    IF code.lit THEN code
    ELSE IF code.source = "" THEN code
    ELSE [code EXCEPT !.source = "",
                      !.offset = @ + blks[CHOOSE b \in DOMAIN blks : TRUE]]

RebaseCode(code, blks) ==
    IF code.lit THEN code
    ELSE IF code.source = "" \/ code.source = "main" THEN code
    ELSE IF code.source \notin DOMAIN blks THEN code
    ELSE [code EXCEPT !.source = "", !.offset = @ + blks[code.source]]

RebaseCodes(cs, blks) ==
    [i \in 1..Len(cs) |-> RebaseCode(cs[i], blks)]

(***************************************************************************)
(* SourceMap of @vue/language-core, as the position map is specified: an   *)
(* entry answers a point query at every index whose range                  *)
(* [from, from + length] contains the offset, entries in map order and     *)
(* indices in array order; the backward query skips entries the caller's   *)
(* predicate rejects.  accepted is the set of indices of the entries the   *)
(* predicate accepts.  A NaN offset matches nothing.                       *)
(***************************************************************************)
RECURSIVE TranslateOffsets(_, _, _, _, _)
TranslateOffsets(x, fromOffsets, toOffsets, lengths, i) ==
    IF i > Len(fromOffsets) THEN <<>>
    ELSE IF x >= fromOffsets[i] /\ x <= fromOffsets[i] + lengths[i]
         THEN <<toOffsets[i] + (x - fromOffsets[i])>>
              \o TranslateOffsets(x, fromOffsets, toOffsets, lengths, i + 1)
         ELSE TranslateOffsets(x, fromOffsets, toOffsets, lengths, i + 1)

RECURSIVE toSourceFrom(_, _, _, _)
toSourceFrom(mappings, x, accepted, i) ==
    IF i > Len(mappings) THEN <<>>
    ELSE IF i \in accepted
         THEN TranslateOffsets(x, mappings[i].generatedOffsets,
                               mappings[i].sourceOffsets, mappings[i].lengths, 1)
              \o toSourceFrom(mappings, x, accepted, i + 1)
         ELSE toSourceFrom(mappings, x, accepted, i + 1)

toSourceLocation(mappings, generatedOffset, accepted) ==
    IF generatedOffset = {} THEN <<>>
    ELSE toSourceFrom(mappings, CHOOSE x \in generatedOffset : TRUE, accepted, 1)

RECURSIVE toGeneratedFrom(_, _, _)
toGeneratedFrom(mappings, x, i) ==
    IF i > Len(mappings) THEN <<>>
    ELSE TranslateOffsets(x, mappings[i].sourceOffsets,
                          mappings[i].generatedOffsets, mappings[i].lengths, 1)
         \o toGeneratedFrom(mappings, x, i + 1)

toGeneratedLocation(mappings, sourceOffset) ==
    toGeneratedFrom(mappings, sourceOffset, 1)

(* The callers' "for (const [offset] of ...) { ...; break; }": the first   *)
(* yielded offset, undefined when nothing is yielded.                      *)
FirstOf(seq) == IF seq = <<>> THEN {} ELSE {seq[1]}

SeqRange(seq) == {seq[i] : i \in 1..Len(seq)}

(* The tail of createVirtualFile: rebase, build the map, join the text. *)
createVirtualFile(cs, blks) ==
    LET rebased == RebaseCodes(cs, blks)
    IN [codes |-> rebased,
        mappings |-> createMappings(rebased),
        virtualText |-> toString(rebased)]

NotBuilt == [codes |-> <<>>, mappings |-> <<>>, virtualText |-> <<>>]

(* Inputs of the composition. *)
BlockNames == {"template"}
BlockStart == 2
LiteralTexts == {<<"a">>}
MappedTexts == {<<>>, <<"a", "a">>}
Tokens == {"t1", "t2"}
(* The provenance and metadata a producer attaches: <<source, data>>. *)
Provenances ==
    {<<"", CodeInformation("true", "")>>,
     <<"", CodeInformation("true", "t1")>>,
     <<"", CodeInformation("absent", "t1")>>,
     <<"template", CodeInformation("true", "")>>,
     <<"template", CodeInformation("true", "t2")>>}

(* The variables of a part of the model that a specification does not use. *)
LineIdle ==
    /\ lcText = <<>>
    /\ lcOffset = 0
    /\ lcPos = NoPos
    /\ lcBack = {}
    /\ lcPc = "idle"

(* The source text of a component and the ranges of the import specifiers  *)
(* of its script, quotes included.                                         *)
NoScript == [sourceText |-> <<>>, imports |-> <<>>]

MapIdle ==
    /\ codes = <<>>
    /\ blocks = [b \in BlockNames |-> BlockStart]
    /\ built = NotBuilt
    /\ mapPc = "idle"
    /\ boundaries = <<>>
    /\ script = NoScript
    /\ emitted = <<>>

NoFiles == [f \in {} |-> 0]

(* A configuration file: the directories from the mutual root (or from the *)
(* cache root) down to it, and its file name.                              *)
ConfigFile(dir, name) == [dir |-> dir, name |-> name]

(* A project configuration named tsconfig.json in the mutual root. *)
DefaultConfig == ConfigFile(<<>>, "tsconfig.json")

ProjectIdle ==
    /\ sourceToTarget = NoFiles
    /\ targetToSource = NoFiles
    /\ includeSet = <<>>
    /\ excludeSet = {}
    /\ processed = 0
    /\ disk = {}
    /\ configPath = DefaultConfig
    /\ configs = {}
    /\ pc = "idle"
    /\ stdout = <<>>
    /\ checkerExit = "none"
    /\ checkerRuns = 0
    /\ parsed = <<>>
    /\ groups = <<>>
    /\ groupIdx = 0
    /\ output = <<>>
    /\ withoutError = TRUE
    /\ result = "none"

(***************************************************************************)
(* Specification of the line/offset getters on arbitrary bounded texts.    *)
(***************************************************************************)
LineInit ==
    /\ lcText \in Texts
    /\ lcOffset = 0
    /\ lcPos = NoPos
    /\ lcBack = {}
    /\ lcPc = "text"
    /\ MapIdle
    /\ ProjectIdle

(* A caller picks an offset of the text, 0 <= o <= length. *)
PickOffset ==
    /\ lcPc = "text"
    /\ \E o \in 0..Len(lcText) : lcOffset' = o
    /\ lcPc' = "offset"
    /\ UNCHANGED <<lcText, lcPos, lcBack>>
    /\ UNCHANGED <<mapVars, projectVars, checkVars>>

GetLineAndColumn ==
    /\ lcPc = "offset"
    /\ lcPos' = createLineAndColumnGetter(lcText, lcOffset)
    /\ lcPc' = "position"
    /\ UNCHANGED <<lcText, lcOffset, lcBack>>
    /\ UNCHANGED <<mapVars, projectVars, checkVars>>

GetOffset ==
    /\ lcPc = "position"
    /\ lcBack' = createOffsetGetter(lcText, lcPos.line, lcPos.column)
    /\ lcPc' = "back"
    /\ UNCHANGED <<lcText, lcOffset, lcPos>>
    /\ UNCHANGED <<mapVars, projectVars, checkVars>>

LineNext == PickOffset \/ GetLineAndColumn \/ GetOffset

SpecLine == LineInit /\ [][LineNext]_vars

(***************************************************************************)
(* Specification of the composition of one synthesized file: a producer    *)
(* emits fragments, then createVirtualFile rebases them and builds the     *)
(* position map and the synthesized text.                                  *)
(***************************************************************************)
MapInit ==
    /\ codes = <<>>
    /\ blocks \in {[b \in BlockNames |-> BlockStart]}
    /\ built = NotBuilt
    /\ mapPc = "emitting"
    /\ boundaries = <<>>
    /\ script = NoScript
    /\ emitted = <<>>
    /\ LineIdle
    /\ ProjectIdle

EmitLiteral ==
    /\ mapPc = "emitting"
    /\ Len(codes) < MaxCodes
    /\ \E text \in LiteralTexts : codes' = Append(codes, Literal(text))
    /\ UNCHANGED <<blocks, built, mapPc, boundaries, script, emitted>>
    /\ UNCHANGED <<lineVars, projectVars, checkVars>>

EmitMapped ==
    /\ mapPc = "emitting"
    /\ Len(codes) < MaxCodes
    /\ \E text \in MappedTexts, offset \in 0..MaxOffset, p \in Provenances :
            codes' = Append(codes, Mapped(text, p[1], offset, p[2]))
    /\ UNCHANGED <<blocks, built, mapPc, boundaries, script, emitted>>
    /\ UNCHANGED <<lineVars, projectVars, checkVars>>

BuildVirtualFile ==
    /\ mapPc = "emitting"
    /\ built' = createVirtualFile(codes, blocks)
    /\ mapPc' = "built"
    /\ UNCHANGED <<codes, blocks, boundaries, script, emitted>>
    /\ UNCHANGED <<lineVars, projectVars, checkVars>>

MapNext == EmitLiteral \/ EmitMapped \/ BuildVirtualFile

SpecMap == MapInit /\ [][MapNext]_vars

(***************************************************************************)
(* Specification of the rebasing of createVirtualFile: the producer names  *)
(* the current file, "main", an embedded block or a block the file does    *)
(* not have as the provenance of a fragment.                               *)
(***************************************************************************)
RebaseSources == {"", "main", "style_0"} \cup BlockNames

EmitFrom ==
    /\ mapPc = "emitting"
    /\ Len(codes) < MaxCodes
    /\ \E text \in MappedTexts, offset \in 0..MaxOffset, source \in RebaseSources :
            codes' = Append(codes,
                Mapped(text, source, offset, CodeInformation("true", "")))
    /\ UNCHANGED <<blocks, built, mapPc, boundaries, script, emitted>>
    /\ UNCHANGED <<lineVars, projectVars, checkVars>>

RebaseNext == EmitLiteral \/ EmitFrom \/ BuildVirtualFile

SpecRebase == MapInit /\ [][RebaseNext]_vars

(* The decimal digits of a non-negative integer, as String(n) gives them. *)
Digit(d) ==
    CASE d = 0 -> "0" [] d = 1 -> "1" [] d = 2 -> "2" [] d = 3 -> "3"
      [] d = 4 -> "4" [] d = 5 -> "5" [] d = 6 -> "6" [] d = 7 -> "7"
      [] d = 8 -> "8" [] d = 9 -> "9"

RECURSIVE Decimal(_)
Decimal(n) == IF n < 10 THEN Digit(n) ELSE Decimal(n \div 10) \o Digit(n % 10)

(***************************************************************************)
(* generateBoundary and a composition pass that uses it.                   *)
(***************************************************************************)

(* Symbol(source): a symbol is equal to itself only; serial is the rank of *)
(* the call among the calls of the pass.                                   *)
SymbolFor(serial) == "t1"

Symbol(serial) == "t" \o Decimal(serial)

(* ["", source, start, { ...features, __combineToken: token }] *)
BoundaryOpen(source, start, features, token) ==
    Mapped(<<>>, source, start, [features EXCEPT !.token = token])

(* ["", source, offset, { __combineToken: token }] *)
BoundaryEnd(source, offset, token) ==
    Mapped(<<>>, source, offset, CodeInformation("absent", token))

(* The wrap form: opener, the given fragments, closer. *)
BoundaryWrap(source, start, end, features, inner, token) ==
    <<BoundaryOpen(source, start, features, token)>>
    \o inner
    \o <<BoundaryEnd(source, end, token)>>

(* The features the generators pass: codeFeatures.verification. *)
BoundaryFeatures == {CodeInformation("true", "")}

(* What is known of an invocation: where its fragments are in codes (close *)
(* is 0 until end() is called), and the arguments given.                   *)
Invocation(open, close, source, start, end, features) ==
    [open |-> open, close |-> close, source |-> source, start |-> start,
     end |-> end, features |-> features]

(* const boundary = yield* generateBoundary(source, start, features) *)
OpenBoundary ==
    /\ mapPc = "emitting"
    /\ Len(boundaries) < MaxBoundaries
    /\ \E source \in BlockNames, start \in 0..MaxOffset,
          features \in BoundaryFeatures :
         /\ codes' = Append(codes, BoundaryOpen(source, start, features,
                                                Symbol(Len(boundaries) + 1)))
         /\ boundaries' = Append(boundaries,
                Invocation(Len(codes) + 1, 0, source, start, 0, features))
    /\ UNCHANGED <<blocks, built, mapPc, script, emitted>>
    /\ UNCHANGED <<lineVars, projectVars, checkVars>>

(* yield boundary.end(offset), for a boundary not yet closed *)
CloseBoundary ==
    /\ mapPc = "emitting"
    /\ \E b \in 1..Len(boundaries), offset \in 0..MaxOffset :
         /\ boundaries[b].close = 0
         /\ codes' = Append(codes,
                BoundaryEnd(boundaries[b].source, offset,
                            codes[boundaries[b].open].data.token))
         /\ boundaries' = [boundaries EXCEPT ![b].close = Len(codes) + 1,
                                             ![b].end = offset]
    /\ UNCHANGED <<blocks, built, mapPc, script, emitted>>
    /\ UNCHANGED <<lineVars, projectVars, checkVars>>

(* yield* generateBoundary(source, start, end, features, ...codes) *)
WrapBoundary ==
    /\ mapPc = "emitting"
    /\ Len(boundaries) < MaxBoundaries
    /\ \E source \in BlockNames, start \in 0..MaxOffset, end \in 0..MaxOffset,
          features \in BoundaryFeatures,
          inner \in {<<>>} \cup {<<Literal(text)>> : text \in LiteralTexts} :
         /\ codes' = codes \o BoundaryWrap(source, start, end, features, inner,
                                           Symbol(Len(boundaries) + 1))
         /\ boundaries' = Append(boundaries,
                Invocation(Len(codes) + 1, Len(codes) + Len(inner) + 2,
                           source, start, end, features))
    /\ UNCHANGED <<blocks, built, mapPc, script, emitted>>
    /\ UNCHANGED <<lineVars, projectVars, checkVars>>

(* yield of a literal between the boundary fragments *)
YieldLiteral ==
    /\ mapPc = "emitting"
    /\ Cardinality({i \in 1..Len(codes) : codes[i].lit}) < MaxLiterals
    /\ \E text \in LiteralTexts : codes' = Append(codes, Literal(text))
    /\ UNCHANGED <<blocks, built, mapPc, boundaries, script, emitted>>
    /\ UNCHANGED <<lineVars, projectVars, checkVars>>

BoundaryNext ==
    \/ OpenBoundary
    \/ CloseBoundary
    \/ WrapBoundary
    \/ YieldLiteral
    \/ BuildVirtualFile

SpecBoundary == MapInit /\ [][BoundaryNext]_vars

(***************************************************************************)
(* codeFeatures and isVerificationEnabled.                                 *)
(***************************************************************************)
(* String(x) of JavaScript for a non-negative integer or undefined. *)
JsString(x) ==
    IF x = {} THEN "undefined" ELSE Decimal(CHOOSE n \in x : TRUE)

(* The verification objects of codeFeatures that carry a shouldReport. *)
Policies ==
    {"doNotReportTs2339AndTs2551", "doNotReportTs2353AndTs2561", "doNotReportTs6133"}

(* shouldReport: (_source, code) => String(code) !== ... of each policy. *)
shouldReport(policy, source, code) ==
    CASE policy = "doNotReportTs2339AndTs2551" ->
            JsString(code) # "2339" /\ JsString(code) # "2551"
      [] policy = "doNotReportTs2353AndTs2561" ->
            JsString(code) # "2353" /\ JsString(code) # "2561"
      [] policy = "doNotReportTs6133" ->
            JsString(code) # "6133"

(* isVerificationEnabled: verification === true, or an object whose        *)
(* shouldReport, called with the single argument code, returns true.  The  *)
(* single argument binds the first parameter; the second is undefined.     *)
(* An object without shouldReport ("object") gives undefined.              *)
isVerificationEnabledTruthy(data, code) ==
    data.verification \notin {"absent", "false"}

isVerificationEnabled(data, code) ==
    \/ data.verification = "true"
    \/ /\ data.verification \in Policies
       /\ shouldReport(data.verification, {code}, {})

(***************************************************************************)
(* parseDiagnostics.  A line of the checker's output is kept as what the   *)
(* parser reads of it: whether diagnosticRE matches and its groups, its    *)
(* length, the length of its part before the first space, and the index    *)
(* of its last tilde (-1 when it has none).                                *)
(***************************************************************************)
Path(root, name, ext, suffix) ==
    [root |-> root, name |-> name, ext |-> ext, suffix |-> suffix]

NoPath == Path("", "", "", <<>>)

HeaderLine(path, line, column, code) ==
    [header |-> TRUE, path |-> path, line |-> line, column |-> column,
     code |-> code, len |-> 1, gutter |-> 1, lastTilde |-> -1]

TextLine(len, gutter, lastTilde) ==
    [header |-> FALSE, path |-> NoPath, line |-> 0, column |-> 0,
     code |-> 0, len |-> len, gutter |-> gutter, lastTilde |-> lastTilde]

BlankLine == TextLine(0, 0, -1)

(* stdout.trim().split("\n"): blank lines at both ends are dropped; the    *)
(* empty output splits into one empty line.                                *)
RECURSIVE DropLeadingBlank(_)
DropLeadingBlank(lines) ==
    IF lines # <<>> /\ Head(lines).len = 0
    THEN DropLeadingBlank(Tail(lines)) ELSE lines

RECURSIVE DropTrailingBlank(_)
DropTrailingBlank(lines) ==
    IF lines # <<>> /\ lines[Len(lines)].len = 0
    THEN DropTrailingBlank(SubSeq(lines, 1, Len(lines) - 1)) ELSE lines

TrimSplit(lines) ==
    LET trimmed == DropTrailingBlank(DropLeadingBlank(lines))
    IN IF trimmed = <<>> THEN <<BlankLine>> ELSE trimmed

(* diagnostic.end = { line: ..., column: ... } for an underline line met   *)
(* at an odd cursor; the cursor is odd there, so the division is exact.    *)
ParsedEndOneBased(diagnostic, cursor, text, padding) ==
    [line |-> diagnostic.start.line + (cursor - 1) \div 2,
     column |-> text.lastTilde + 1 - padding]

ParsedEnd(diagnostic, cursor, text, padding) ==
    [line |-> diagnostic.start.line + (cursor - 3) \div 2,
     column |-> text.lastTilde + 1 - padding]

(* The line loop.  id is the identity of the Diagnostic object (its rank   *)
(* in the order of creation).  Assigning diagnostics.at(-1)!.end when no   *)
(* diagnostic exists yet is a TypeError.                                   *)
RECURSIVE ParseLines(_, _, _, _, _)
ParseLines(lines, i, diagnostics, cursor, padding) ==
    IF i > Len(lines) THEN [threw |-> FALSE, diagnostics |-> diagnostics]
    ELSE LET text == lines[i]
         IN IF text.header
            THEN ParseLines(lines, i + 1,
                    Append(diagnostics,
                        [id |-> Len(diagnostics) + 1,
                         path |-> text.path,
                         code |-> text.code,
                         start |-> [line |-> text.line, column |-> text.column],
                         end |-> NoPos]),
                    0 + 1, padding)
            ELSE IF cursor % 2 = 0 /\ text.len > 0
            THEN ParseLines(lines, i + 1, diagnostics, cursor + 1, text.gutter)
            ELSE IF cursor % 2 = 1 /\ text.lastTilde >= 0
            THEN IF diagnostics = <<>>
                 THEN [threw |-> TRUE, diagnostics |-> diagnostics]
                 ELSE LET last == Len(diagnostics)
                          end == ParsedEnd(diagnostics[last], cursor, text, padding)
                      IN ParseLines(lines, i + 1,
                            [diagnostics EXCEPT ![last].end = end],
                            cursor + 1, padding)
            ELSE ParseLines(lines, i + 1, diagnostics, cursor + 1, padding)

UnshiftDiagnostic(group, diagnostic) == <<diagnostic>> \o group

(* group.push(diagnostic) *)
PushDiagnostic(group, diagnostic) == Append(group, diagnostic)

(* The grouping loop: groups in order of first occurrence of their path. *)
RECURSIVE GroupDiagnostics(_, _, _)
GroupDiagnostics(diagnostics, i, grouped) ==
    IF i > Len(diagnostics) THEN grouped
    ELSE LET diagnostic == diagnostics[i]
             found == {g \in 1..Len(grouped) : grouped[g].path = diagnostic.path}
         IN IF found = {}
            THEN GroupDiagnostics(diagnostics, i + 1,
                    Append(grouped, [path |-> diagnostic.path,
                                    diagnostics |-> <<diagnostic>>]))
            ELSE LET g == CHOOSE g \in found : TRUE
                 IN GroupDiagnostics(diagnostics, i + 1,
                        [grouped EXCEPT ![g].diagnostics =
                                            PushDiagnostic(@, diagnostic)])

parseDiagnostics(out) ==
    LET loop == ParseLines(TrimSplit(out), 1, <<>>, 0, 0)
    IN [threw |-> loop.threw,
        diagnostics |-> loop.diagnostics,
        groups |-> GroupDiagnostics(loop.diagnostics, 1, <<>>)]

(***************************************************************************)
(* createProject: paths, source files and the two lookup tables.           *)
(***************************************************************************)
VuePath == Path("proj", "A", ".vue", <<>>)
TsPath == Path("proj", "b", ".ts", <<>>)
LibPath == Path("lib", "lib", ".d.ts", <<>>)

(* vueCompilerOptions.extensions *)
Extensions == {".vue"}

(* join(cacheRoot, relative(mutualRoot, path)) for a path under mutualRoot. *)
TargetPathOf(path) == [path EXCEPT !.root = "cache"]

RECURSIVE padStart(_, _, _)
padStart(str, n, fill) ==
    IF Len(str) >= n THEN str ELSE padStart(<<fill>> \o str, n, fill)

(* `.${virtualLang}`.padStart(4, "_") *)
VirtualSuffix(virtualLang) == padStart(<<".">> \o virtualLang, 4, "_")

DefaultLang == <<"t", "s">>

NoBlocks == [b \in {} |-> 0]

(* createSourceFile: a virtual file for a path with a component extension, *)
(* whose targetPath gets the suffix of its script language; a native file  *)
(* otherwise, with an empty code list, hence no virtualText and no         *)
(* mapping.  references are the paths of the file's reference directives.  *)
createSourceFile(sourcePath, targetPath, sourceText, generatedCodes, references, virtualLang) ==
    IF sourcePath.ext \in Extensions
    THEN LET virtual == createVirtualFile(generatedCodes, NoBlocks)
         IN [type |-> "virtual",
             sourcePath |-> sourcePath,
             targetPath |-> [targetPath EXCEPT
                                !.suffix = @ \o VirtualSuffix(virtualLang)],
             virtualLang |-> virtualLang,
             sourceText |-> sourceText,
             virtualText |-> {virtual.virtualText},
             mappings |-> virtual.mappings,
             references |-> references]
    ELSE [type |-> "native",
          sourcePath |-> sourcePath,
          targetPath |-> targetPath,
          sourceText |-> sourceText,
          virtualText |-> {},
          mappings |-> createMappings(<<>>),
          references |-> references]

(* getVirtualOffset: createOffsetGetter(virtualText ?? "") *)
getVirtualOffset(sourceFile, line, column) ==
    LET text == IF sourceFile.virtualText = {} THEN <<>>
                ELSE CHOOSE t \in sourceFile.virtualText : TRUE
    IN createOffsetGetter(text, line, column)

(* getSourceLineAndColumn on a number or undefined.  For undefined no      *)
(* comparison of the scan succeeds, the line is the last one and the       *)
(* column is NaN (written 0); check() never passes undefined.              *)
getSourceLineAndColumn(sourceFile, offset) ==
    IF offset = {}
    THEN [line |-> Len(LineOffsets(sourceFile.sourceText)), column |-> 0]
    ELSE createLineAndColumnGetter(sourceFile.sourceText,
                                   CHOOSE o \in offset : TRUE)

(***************************************************************************)
(* check: the remap loop and the rendering of one group.                   *)
(***************************************************************************)

(* The entries of the map the remap predicate accepts for a code. *)
AcceptedEntries(mappings, code) ==
    {e \in 1..Len(mappings) : isVerificationEnabled(mappings[e].data, code)}

(* left / right: the first source offset of the backward query. *)
RemapOffset(sourceFile, position, code) ==
    FirstOf(toSourceLocation(
        sourceFile.mappings,
        getVirtualOffset(sourceFile, position.line, position.column),
        AcceptedEntries(sourceFile.mappings, code)))

(* !x for x a number or undefined. *)
Falsy(x) == x = {} \/ x = {0}

(* Mutation: the diagnostic is dropped only when both ends fail to map. *)
UnmappableBoth(left, right) == Falsy(left) /\ Falsy(right)

(* if (!left || !right) *)
Unmappable(left, right) == Falsy(left) \/ Falsy(right)

SpliceOut(seq, k) == SubSeq(seq, 1, k - 1) \o SubSeq(seq, k + 1, Len(seq))

(* for (let i = 0; i < diagnostics.length; i++) with                       *)
(* diagnostics.splice(i--, 1) on a discard; i is the 0-based index.        *)
RECURSIVE RemapLoop(_, _, _)
RemapLoop(diagnostics, i, sourceFile) ==
    IF i >= Len(diagnostics) THEN diagnostics
    ELSE LET diagnostic == diagnostics[i + 1]
             left == RemapOffset(sourceFile, diagnostic.start, diagnostic.code)
             right == RemapOffset(sourceFile, diagnostic.end, diagnostic.code)
         IN IF Unmappable(left, right)
            THEN RemapLoop(SpliceOut(diagnostics, i + 1), (i - 1) + 1, sourceFile)
            ELSE RemapLoop(
                    [diagnostics EXCEPT
                        ![i + 1].start = getSourceLineAndColumn(sourceFile, left),
                        ![i + 1].end = getSourceLineAndColumn(sourceFile, right)],
                    i + 1, sourceFile)

(* sourceText.split("\n") *)
RECURSIVE SplitFrom(_, _, _)
SplitFrom(text, i, current) ==
    IF i > Len(text) THEN <<current>>
    ELSE IF text[i] = NL THEN <<current>> \o SplitFrom(text, i + 1, <<>>)
    ELSE SplitFrom(text, i + 1, Append(current, text[i]))

SplitLines(text) == SplitFrom(text, 1, <<>>)

Min(a, b) == IF a < b THEN a ELSE b
Max(a, b) == IF a > b THEN a ELSE b

(* Array.prototype.slice(a, b) *)
JsSlice(seq, a, b) ==
    LET n == Len(seq)
        from == IF a < 0 THEN Max(n + a, 0) ELSE Min(a, n)
        to == IF b < 0 THEN Max(n + b, 0) ELSE Min(b, n)
    IN IF from < to THEN SubSeq(seq, from + 1, to) ELSE <<>>

(* String(n).length *)
RECURSIVE DecimalLength(_)
DecimalLength(n) ==
    IF n < 0 THEN 1 + DecimalLength(0 - n)
    ELSE IF n < 10 THEN 1 ELSE 1 + DecimalLength(n \div 10)

(* const columnStart = i === 0 ? start.column - 1 : 0 *)
ColumnStart(i, start) == IF i = 0 THEN start.column - 1 ELSE 0

ColumnEndOfLine(i, printedLines, end, line) == Len(line)

(* const columnEnd = i === printedLines.length - 1 ? end.column - 1 : line.length *)
ColumnEnd(i, printedLines, end, line) ==
    IF i = Len(printedLines) - 1 THEN end.column - 1 ELSE Len(line)

(* The rows printed for one diagnostic: the source row, then the underline *)
(* row; String.prototype.repeat throws a RangeError on a negative count.   *)
RECURSIVE RenderRows(_, _, _, _, _)
RenderRows(printedLines, i, start, end, padding) ==
    IF i >= Len(printedLines) THEN [threw |-> FALSE, rows |-> <<>>]
    ELSE LET line == printedLines[i + 1]
             columnStart == ColumnStart(i, start)
             columnEnd == ColumnEnd(i, printedLines, end, line)
             row == [number |-> start.line + i,
                     numberWidth |-> DecimalLength(start.line + i),
                     lineLength |-> Len(line),
                     underlined |-> TRUE,
                     blankWidth |-> padding,
                     columnStart |-> columnStart,
                     tildes |-> columnEnd - columnStart]
         IN IF columnStart < 0 \/ columnEnd - columnStart < 0
            THEN [threw |-> TRUE, rows |-> <<[row EXCEPT !.underlined = FALSE]>>]
            ELSE LET rest == RenderRows(printedLines, i + 1, start, end, padding)
                 IN [threw |-> rest.threw, rows |-> <<row>> \o rest.rows]

(* for (const { start, end, code, message } of diagnostics) { ... } *)
RECURSIVE RenderDiagnostics(_, _, _, _)
RenderDiagnostics(diagnostics, i, path, lines) ==
    IF i > Len(diagnostics) THEN [threw |-> FALSE, out |-> <<>>]
    ELSE LET diagnostic == diagnostics[i]
             padding == DecimalLength(diagnostic.end.line)
             printedLines == JsSlice(lines, diagnostic.start.line - 1,
                                     diagnostic.end.line)
             rendered == RenderRows(printedLines, 0, diagnostic.start,
                                    diagnostic.end, padding)
             entry == [id |-> diagnostic.id,
                       path |-> path,
                       start |-> diagnostic.start,
                       end |-> diagnostic.end,
                       code |-> diagnostic.code,
                       rows |-> rendered.rows]
         IN IF rendered.threw THEN [threw |-> TRUE, out |-> <<entry>>]
            ELSE LET rest == RenderDiagnostics(diagnostics, i + 1, path, lines)
                 IN [threw |-> rest.threw, out |-> <<entry>> \o rest.out]

(***************************************************************************)
(* Specification of a project: createProject processes the files, check()  *)
(* generates the cache, runs the checker and handles its output.           *)
(***************************************************************************)

(* The files on the real file system and what readFile returns for them. *)
VueSourceText == <<"a", NL, "a", "a", "a">>
TsSourceText == <<"a", "a", "a">>
LibText ==
    <<"a", "a", "a", NL, "a", NL, "a", NL, "a", NL, "a", NL, "a", NL,
      "a", NL, "a", NL, "a", "a", "a", NL, "a", "a", "a">>
FileSystem ==
    (VuePath :> VueSourceText) @@ (TsPath :> TsSourceText) @@ (LibPath :> LibText)

(* What generateScript may return for the component: fragment sequences. *)
FileFragments ==
    {Literal(<<"a">>),
     Mapped(<<"a", "a">>, "", 0, CodeInformation("true", "")),
     Mapped(<<"a", "a">>, "", 2, CodeInformation("true", "")),
     Mapped(<<"a", "a">>, "", 2, CodeInformation("absent", "")),
     Mapped(<<"a", "a">>, "", 2, CodeInformation("doNotReportTs2339AndTs2551", ""))}

RemapContents == SeqsUpTo(FileFragments, MaxFileCodes)

ProjectContents ==
    {<<Mapped(<<"a", "a">>, "", 2, CodeInformation("true", "")), Literal(<<"a">>)>>,
     <<Mapped(<<"a", "a">>, "", 0, CodeInformation("true", "")),
       Mapped(<<"a", "a">>, "", 2, CodeInformation("doNotReportTs2339AndTs2551", ""))>>}

DiagnosticCodes == {2339, 2322}

ProjectInit ==
    /\ LineIdle
    /\ MapIdle
    /\ sourceToTarget = NoFiles
    /\ targetToSource = NoFiles
    /\ includeSet = <<VuePath, TsPath>>
    /\ excludeSet = {}
    /\ processed = 0
    /\ disk = {}
    /\ configPath = DefaultConfig
    /\ configs = {}
    /\ pc = "created"
    /\ stdout = <<>>
    /\ checkerExit = "none"
    /\ checkerRuns = 0
    /\ parsed = <<>>
    /\ groups = <<>>
    /\ groupIdx = 0
    /\ output = <<>>
    /\ withoutError = TRUE
    /\ result = "none"

ExcludedNever(path, excluded) == FALSE

(* excludeSet.has(path) *)
Excluded(path, excluded) == path \in excluded

(* includeSet.add(path) for every path of sourceFile.references: a Set     *)
(* keeps insertion order and ignores a path it already holds.              *)
RECURSIVE AddReferences(_, _)
AddReferences(included, references) ==
    IF references = <<>> THEN included
    ELSE AddReferences(IF Head(references) \in SeqRange(included) THEN included
                       ELSE Append(included, Head(references)),
                       Tail(references))

(* One iteration of for (const path of includeSet) await processFile(path). *)
(* includeSet is the Set in insertion order and processed the number of    *)
(* its paths the iterator has passed: a path added during the loop is      *)
(* visited later, the deletion of the current path leaves the next path at *)
(* the iterator, and the loop ends when the iterator reaches the end.      *)
(* contents is what the code generator may produce for a component and     *)
(* referenceLists the lists of paths the reference directives of a file    *)
(* may name; readFile rejects for a path that is not on the file system.   *)
ProcessFile(contents, referenceLists) ==
    /\ pc = "created"
    /\ processed < Len(includeSet)
    /\ LET path == includeSet[processed + 1]
           targetPath == TargetPathOf(path)
       IN IF Excluded(path, excludeSet)
          THEN /\ includeSet' = SpliceOut(includeSet, processed + 1)
               /\ pc' = IF processed = Len(includeSet) - 1 THEN "ready"
                        ELSE "created"
               /\ UNCHANGED <<sourceToTarget, targetToSource, processed>>
          ELSE IF path \in DOMAIN sourceToTarget
          THEN /\ processed' = processed + 1
               /\ pc' = IF processed + 1 = Len(includeSet) THEN "ready"
                        ELSE "created"
               /\ UNCHANGED <<sourceToTarget, targetToSource, includeSet>>
          ELSE IF path \notin DOMAIN FileSystem
          THEN /\ pc' = "threw"
               /\ UNCHANGED <<sourceToTarget, targetToSource, includeSet,
                              processed>>
          ELSE \E generatedCodes \in
                    (IF path.ext \in Extensions THEN contents ELSE {<<>>}),
                  references \in referenceLists :
                 LET sourceFile == createSourceFile(path, targetPath,
                                                    FileSystem[path],
                                                    generatedCodes, references,
                                                    DefaultLang)
                     included == AddReferences(includeSet, sourceFile.references)
                 IN /\ sourceToTarget' = sourceToTarget @@ (path :> sourceFile)
                    /\ targetToSource' = targetToSource @@ (targetPath :> path)
                    /\ includeSet' = included
                    /\ processed' = processed + 1
                    /\ pc' = IF processed + 1 = Len(included) THEN "ready"
                             ELSE "created"
    /\ UNCHANGED <<excludeSet, disk, configPath, configs, stdout, checkerExit,
                   checkerRuns, parsed, groups, groupIdx, output, withoutError,
                   result>>
    /\ UNCHANGED <<lineVars, mapVars>>

(* The configuration the checker is started with: <cacheRoot>/tsconfig.json. *)
CheckerConfig == ConfigFile(<<>>, "tsconfig.json")

(* The configuration files generate() writes into the cache directory:     *)
(* the copy at join(cacheRoot, relative(mutualRoot, configPath)) and, when *)
(* the copy is not directly in the cache root, the stub that references it. *)
GeneratedConfigs(path) ==
    LET targetConfigPath == ConfigFile(path.dir, path.name)
    IN {targetConfigPath}
       \cup (IF targetConfigPath.dir # <<>> THEN {CheckerConfig} ELSE {})

(* check() up to the start of the checker: generate() wipes the cache      *)
(* directory, writes or links every file of includeSet at                  *)
(* sourceFile.targetPath and writes the configuration, then tsgo is        *)
(* spawned.  getSourceFile(path)! of a path that is not registered makes   *)
(* generate() throw at that path.                                          *)
CheckStart ==
    /\ pc = "ready"
    /\ LET unregistered == {k \in 1..Len(includeSet) :
                               includeSet[k] \notin DOMAIN sourceToTarget}
           reached == IF unregistered = {} THEN Len(includeSet)
                      ELSE (CHOOSE k \in unregistered :
                                \A j \in unregistered : k <= j) - 1
       IN /\ disk' = {[path |-> sourceToTarget[includeSet[k]].targetPath,
                       source |-> includeSet[k],
                       written |-> sourceToTarget[includeSet[k]].virtualText # {}] :
                          k \in 1..reached}
          /\ IF unregistered = {}
             THEN /\ configs' = GeneratedConfigs(configPath)
                  /\ checkerRuns' = checkerRuns + 1
                  /\ pc' = "running"
             ELSE /\ configs' = {}
                  /\ pc' = "threw"
                  /\ UNCHANGED checkerRuns
    /\ UNCHANGED <<sourceToTarget, targetToSource, includeSet, excludeSet,
                   processed, configPath, stdout, checkerExit, parsed, groups,
                   groupIdx, output, withoutError, result>>
    /\ UNCHANGED <<lineVars, mapVars>>

(* One pretty-printed diagnostic of the checker: header, blank line,       *)
(* source row with its line-number gutter, underline row of n tildes from  *)
(* the column on (no underline row when n = 0), blank line.                *)
DiagnosticBlock(path, line, column, n, code) ==
    LET gutter == DecimalLength(line)
        lastTilde == gutter + 1 + (column - 1) + n - 1
    IN <<HeaderLine(path, line, column, code), BlankLine,
         TextLine(gutter + 1 + MaxCol, gutter, -1)>>
       \o (IF n > 0 THEN <<TextLine(lastTilde + 1, 0, lastTilde)>> ELSE <<>>)
       \o <<BlankLine>>

(* Lines that are no part of a block: a summary line, a line with a tilde. *)
NoiseLines == {TextLine(5, 5, -1), TextLine(3, 1, 2)}

CountLines(lines, S) == Cardinality({i \in 1..Len(lines) : lines[i] \in S})
CountHeaders(lines) == Cardinality({i \in 1..Len(lines) : lines[i].header})

(* The paths the checker may report: the files of the cache directory,     *)
(* the keys of targetToSource, a library file outside the cache.           *)
ReportPaths == {d.path : d \in disk} \cup DOMAIN targetToSource \cup {LibPath}

(* The keys of targetToSource that resolve to a synthesized file. *)
VirtualKeys ==
    {t \in DOMAIN targetToSource : sourceToTarget[targetToSource[t]].type = "virtual"}

CheckerReport(maxBlocks, paths, columns, tildes) ==
    /\ pc = "running"
    /\ CountHeaders(stdout) < maxBlocks
    /\ \E path \in paths, column \in columns, n \in tildes,
          code \in DiagnosticCodes :
            stdout' = stdout \o DiagnosticBlock(path, 1, column, n, code)
    /\ UNCHANGED <<projectVars, pc, checkerExit, checkerRuns, parsed, groups,
                   groupIdx, output, withoutError, result>>
    /\ UNCHANGED <<lineVars, mapVars>>

CheckerNoise ==
    /\ pc = "running"
    /\ CountLines(stdout, NoiseLines) < MaxNoise
    /\ \E line \in NoiseLines : stdout' = Append(stdout, line)
    /\ UNCHANGED <<projectVars, pc, checkerExit, checkerRuns, parsed, groups,
                   groupIdx, output, withoutError, result>>
    /\ UNCHANGED <<lineVars, mapVars>>

(* The checker exits after its report (with or without diagnostics). *)
CheckerExit ==
    /\ pc = "running"
    /\ checkerExit' = "ok"
    /\ pc' = "exited"
    /\ UNCHANGED <<projectVars, stdout, checkerRuns, parsed, groups,
                   groupIdx, output, withoutError, result>>
    /\ UNCHANGED <<lineVars, mapVars>>

(* The checker is not found or dies before it prints anything; with        *)
(* nothrow: true the awaited process promise still resolves.               *)
CheckerFail ==
    /\ pc = "running"
    /\ stdout = <<>>
    /\ checkerExit' = "failed"
    /\ pc' = "exited"
    /\ UNCHANGED <<projectVars, stdout, checkerRuns, parsed, groups,
                   groupIdx, output, withoutError, result>>
    /\ UNCHANGED <<lineVars, mapVars>>

(* check() after the checker: parseDiagnostics, then the loop over the     *)
(* groups; with no group check() returns withoutError at once.             *)
CheckParse ==
    /\ pc = "exited"
    /\ LET r == parseDiagnostics(stdout)
       IN /\ parsed' = r.diagnostics
          /\ groups' = IF r.threw THEN <<>> ELSE r.groups
          /\ groupIdx' = 1
          /\ pc' = IF r.threw THEN "threw"
                   ELSE IF r.groups = <<>> THEN "returned" ELSE "groups"
          /\ result' = IF ~r.threw /\ r.groups = <<>> THEN "true" ELSE result
    /\ UNCHANGED <<projectVars, stdout, checkerExit, checkerRuns, output,
                   withoutError>>
    /\ UNCHANGED <<lineVars, mapVars>>

WithoutErrorKept(before, rendered) == before

(* withoutError = false at the end of every iteration of the rendering     *)
(* loop: the flag stays true only while nothing has been rendered.         *)
WithoutErrorAfter(before, rendered) == before /\ rendered = <<>>

(* One iteration of the loop over Object.entries(groups): lookup, remap    *)
(* loop, readFile for an unknown file, rendering; after the last group     *)
(* check() returns withoutError.                                           *)
CheckGroup ==
    /\ pc = "groups"
    /\ LET group == groups[groupIdx]
           known == group.path \in DOMAIN targetToSource
           sourceFile == sourceToTarget[targetToSource[group.path]]
           diagnostics == IF known
                          THEN RemapLoop(group.diagnostics, 0, sourceFile)
                          ELSE group.diagnostics
           path == IF known THEN sourceFile.sourcePath
                   ELSE IF group.path.root = "cache"
                        THEN [group.path EXCEPT !.root = "proj"]
                        ELSE group.path
           readable == known \/ path \in DOMAIN FileSystem
           sourceText == IF known THEN sourceFile.sourceText ELSE FileSystem[path]
           rendered == RenderDiagnostics(diagnostics, 1, path, SplitLines(sourceText))
           clean == WithoutErrorAfter(withoutError, rendered.out)
       IN /\ groups' = [groups EXCEPT ![groupIdx].diagnostics = diagnostics]
          /\ IF ~readable
             THEN /\ pc' = "threw"
                  /\ UNCHANGED <<groupIdx, output, withoutError, result>>
             ELSE /\ output' = output \o rendered.out
                  /\ withoutError' = clean
                  /\ IF rendered.threw
                     THEN pc' = "threw" /\ UNCHANGED <<groupIdx, result>>
                     ELSE IF groupIdx = Len(groups)
                     THEN /\ pc' = "returned"
                          /\ result' = IF clean THEN "true" ELSE "false"
                          /\ UNCHANGED groupIdx
                     ELSE /\ pc' = "groups"
                          /\ groupIdx' = groupIdx + 1
                          /\ UNCHANGED result
    /\ UNCHANGED <<projectVars, stdout, checkerExit, checkerRuns, parsed>>
    /\ UNCHANGED <<lineVars, mapVars>>

Next ==
    \/ ProcessFile(ProjectContents, {<<>>})
    \/ CheckStart
    \/ CheckerReport(MaxBlocks, ReportPaths, {1}, {0, MaxTildes})
    \/ CheckerNoise
    \/ CheckerExit
    \/ CheckerFail
    \/ CheckParse
    \/ CheckGroup

Spec == ProjectInit /\ [][Next]_vars

(* The same program with every fragment sequence up to MaxFileCodes as the *)
(* component's code and a checker that reports in the synthesized file     *)
(* the project resolves.                                                   *)
RemapNext ==
    \/ ProcessFile(RemapContents, {<<>>})
    \/ CheckStart
    \/ CheckerReport(MaxRemapBlocks, VirtualKeys, 1..MaxCol, 0..MaxTildes)
    \/ CheckerExit
    \/ CheckerFail
    \/ CheckParse
    \/ CheckGroup

SpecRemap == ProjectInit /\ [][RemapNext]_vars

(***************************************************************************)
(* The same program with one component and a checker whose pretty output   *)
(* starts with a block of any shape (message continuation lines after the  *)
(* header, no code span, a code span of several rows), followed by blocks  *)
(* of one underlined row and by lines that belong to no block.             *)
(***************************************************************************)
ParseContents ==
    {<<Mapped(<<"a", "a">>, "", 2, CodeInformation("true", "")), Literal(<<"a">>)>>}

(* First lines the checker reports at; the library file has ten lines. *)
StartLines == {1, 9}

(* A source row of a code span: the line number right-aligned in a gutter  *)
(* of the width of the span's last line number, a space, the line.         *)
SourceRow(number, width) ==
    TextLine(width + 1 + MaxCol,
             IF DecimalLength(number) < width THEN 0 ELSE width, -1)

(* An underline row: blank gutter, a space, blanks, tildes. *)
UnderlineRow(lastTilde) == TextLine(lastTilde + 1, 0, lastTilde)

(* An indented line that continues the message of the header. *)
ContinuationLine == TextLine(4, 0, -1)

(* The rows of a code span from its row k on: every row but the last is    *)
(* underlined to its end, the last one up to the given tilde.              *)
RECURSIVE CodeSpan(_, _, _, _, _)
CodeSpan(line, rows, k, width, lastTilde) ==
    IF k >= rows THEN <<>>
    ELSE <<SourceRow(line + k, width),
           UnderlineRow(IF k = rows - 1 THEN lastTilde ELSE width + MaxCol)>>
         \o CodeSpan(line, rows, k + 1, width, lastTilde)

PrettyBlock(path, line, column, code, cont, rows, tildes) ==
    LET width == DecimalLength(line + rows - 1)
        lastTilde == width + (IF rows = 1 THEN column - 1 ELSE 0) + tildes
    IN <<HeaderLine(path, line, column, code)>>
       \o [k \in 1..cont |-> ContinuationLine]
       \o <<BlankLine>>
       \o CodeSpan(line, rows, 0, width, lastTilde)
       \o <<BlankLine>>

ParsePaths == VirtualKeys \cup {LibPath}

LinesOf(path) == IF path = LibPath THEN StartLines ELSE {1}

CheckerPretty ==
    /\ pc = "running"
    /\ CountHeaders(stdout) = 0
    /\ \E path \in ParsePaths, column \in {1, MaxCol}, cont \in 0..MaxCont,
          rows \in 0..MaxRows, tildes \in {1, MaxTildes} :
         /\ rows = 0 => tildes = 1
         /\ \E line \in LinesOf(path) :
              stdout' = stdout \o PrettyBlock(path, line, column,
                                              2322, cont, rows, tildes)
    /\ UNCHANGED <<projectVars, pc, checkerExit, checkerRuns, parsed, groups,
                   groupIdx, output, withoutError, result>>
    /\ UNCHANGED <<lineVars, mapVars>>

ParseNext ==
    \/ ProcessFile(ParseContents, {<<>>})
    \/ CheckStart
    \/ CheckerPretty
    \/ CheckerReport(MaxBlocks, {LibPath}, {1}, {1})
    \/ CheckerNoise
    \/ CheckerExit
    \/ CheckerFail
    \/ CheckParse
    \/ CheckGroup

SpecParse == ProjectInit /\ [][ParseNext]_vars

(***************************************************************************)
(* The same program with components made of regions of each verification   *)
(* that carries no predicate: true, false, absent, an object without       *)
(* shouldReport.                                                           *)
(***************************************************************************)
Unconditional == {"true", "false", "absent", "object"}

PolicyFragments ==
    {Mapped(<<"a", "a">>, "", 2, CodeInformation(v, "")) : v \in Unconditional}

PolicyContents == SeqsUpTo(PolicyFragments, MaxFileCodes)

PolicyNext ==
    \/ ProcessFile(PolicyContents, {<<>>})
    \/ CheckStart
    \/ CheckerReport(MaxRemapBlocks, VirtualKeys, 1..MaxCol, 0..MaxTildes)
    \/ CheckerExit
    \/ CheckerFail
    \/ CheckParse
    \/ CheckGroup

SpecPolicy == ProjectInit /\ [][PolicyNext]_vars

(***************************************************************************)
(* Specification of the file worklist of createProject: the include and    *)
(* exclude patterns resolve to any files of the file system, and the       *)
(* reference directives of a file name any paths, a file that does not     *)
(* exist among them; then check() starts.  Each file is read at most once, *)
(* so the directives chosen when it is read are those of a fixed reference *)
(* graph.                                                                  *)
(***************************************************************************)
MissingPath == Path("proj", "c", ".ts", <<>>)

(* A list names no path twice. *)
Distinct(paths) ==
    \A i, j \in 1..Len(paths) : i < j => paths[i] # paths[j]

(* The lists the include patterns may resolve to. *)
IncludeLists ==
    {paths \in SeqsUpTo(DOMAIN FileSystem, MaxIncludes) :
        paths # <<>> /\ Distinct(paths)}

(* The sets the exclude patterns may resolve to. *)
ExcludeSets ==
    {paths \in SUBSET DOMAIN FileSystem : Cardinality(paths) <= MaxExcludes}

(* The paths the reference directives of one file may name. *)
ReferenceLists ==
    {paths \in SeqsUpTo(DOMAIN FileSystem \cup {MissingPath}, MaxReferences) :
        Distinct(paths)}

WorklistInit ==
    /\ LineIdle
    /\ MapIdle
    /\ sourceToTarget = NoFiles
    /\ targetToSource = NoFiles
    /\ includeSet \in IncludeLists
    /\ excludeSet \in ExcludeSets
    /\ processed = 0
    /\ disk = {}
    /\ configPath = DefaultConfig
    /\ configs = {}
    /\ pc = "created"
    /\ stdout = <<>>
    /\ checkerExit = "none"
    /\ checkerRuns = 0
    /\ parsed = <<>>
    /\ groups = <<>>
    /\ groupIdx = 0
    /\ output = <<>>
    /\ withoutError = TRUE
    /\ result = "none"

WorklistNext ==
    \/ ProcessFile({<<Literal(<<"a">>)>>}, ReferenceLists)
    \/ CheckStart

SpecWorklist == WorklistInit /\ [][WorklistNext]_vars

(* Every awaited processFile settles and the loop goes on: the steps of    *)
(* createProject and of check() are taken as long as one is possible.      *)
FairWorklist == SpecWorklist /\ WF_vars(WorklistNext)

(***************************************************************************)
(* Specification of a project whose configuration has any file name and    *)
(* lies in the mutual root or up to MaxUpward directories below it (the    *)
(* include patterns start with that many "../").  The checker reports      *)
(* diagnostics only when the configuration it was started with exists.     *)
(***************************************************************************)
(* relative(mutualRoot, configPath) *)
ConfigPaths ==
    {ConfigFile(dir, name) : dir \in SeqsUpTo({"app"}, MaxUpward),
                             name \in {"tsconfig.json", "tsconfig.app.json"}}

ConfigInit ==
    /\ LineIdle
    /\ MapIdle
    /\ sourceToTarget = NoFiles
    /\ targetToSource = NoFiles
    /\ includeSet = <<VuePath, TsPath>>
    /\ excludeSet = {}
    /\ processed = 0
    /\ disk = {}
    /\ configPath \in ConfigPaths
    /\ configs = {}
    /\ pc = "created"
    /\ stdout = <<>>
    /\ checkerExit = "none"
    /\ checkerRuns = 0
    /\ parsed = <<>>
    /\ groups = <<>>
    /\ groupIdx = 0
    /\ output = <<>>
    /\ withoutError = TRUE
    /\ result = "none"

(* The checker has read its configuration and reports. *)
CheckerConfigured ==
    /\ CheckerConfig \in configs
    /\ CheckerReport(MaxRemapBlocks, ReportPaths, {1}, {0, MaxTildes})

ConfigNext ==
    \/ ProcessFile(ProjectContents, {<<>>})
    \/ CheckStart
    \/ CheckerConfigured
    \/ CheckerExit
    \/ CheckerFail
    \/ CheckParse
    \/ CheckGroup

SpecConfig == ConfigInit /\ [][ConfigNext]_vars

(***************************************************************************)
(* Specification of the imports of one component: its text is an opening   *)
(* tag of BlockStart characters and a script that imports files by         *)
(* specifiers; createVirtualFile composes it (the script as one mapped     *)
(* fragment after a literal, transformImportRanges, rebasing, map and      *)
(* text), and generate() patches the text it writes.  The imported files   *)
(* are registered: a component with any script language and a plain file;  *)
(* a third specifier names a component outside the project.                *)
(***************************************************************************)

(* String.prototype.endsWith *)
endsWith(text, suffix) ==
    /\ Len(suffix) <= Len(text)
    /\ SubSeq(text, Len(text) - Len(suffix) + 1, Len(text)) = suffix

(* replaceSourceRange(codes, source, offset, offset, text) of              *)
(* muggle-string: the first mapped fragment of the source that spans the   *)
(* offset is split there and the text put between the two parts; a part    *)
(* that would be empty is left out.                                        *)
replaceSourceRange(cs, source, offset, text) ==
    LET spans == {i \in 1..Len(cs) :
                    /\ ~cs[i].lit
                    /\ cs[i].source = source
                    /\ cs[i].offset <= offset
                    /\ offset <= cs[i].offset + Len(cs[i].text)}
    IN IF spans = {} THEN cs
       ELSE LET i == CHOOSE x \in spans : \A y \in spans : x <= y
                k == offset - cs[i].offset
                left == IF k > 0
                        THEN <<[cs[i] EXCEPT !.text = SubSeq(@, 1, k)]>>
                        ELSE <<>>
                right == IF k < Len(cs[i].text)
                         THEN <<[cs[i] EXCEPT
                                    !.text = SubSeq(@, k + 1, Len(@)),
                                    !.offset = @ + k]>>
                         ELSE <<>>
            IN SubSeq(cs, 1, i - 1) \o left \o <<Literal(text)>> \o right
               \o SubSeq(cs, i + 1, Len(cs))

(* transformImportRanges from the range at index i on: four blanks are    *)
(* put before the closing quote of a specifier that ends with a component  *)
(* extension (vueCompilerOptions.extensions is [".vue"]), and the range is *)
(* moved by sourceStart.                                                   *)
RECURSIVE transformImportRanges(_, _, _, _, _, _)
transformImportRanges(sourceText, sourceStart, source, cs, imports, i) ==
    IF i > Len(imports) THEN [codes |-> cs, imports |-> imports]
    ELSE LET range == imports[i]
             text == JsSlice(sourceText, range.start + 1, range.end - 1)
             replaced == IF endsWith(text, <<".", "v", "u", "e">>)
                         THEN replaceSourceRange(cs, source, range.end - 1,
                                                 <<" ", " ", " ", " ">>)
                         ELSE cs
         IN transformImportRanges(
                sourceText, sourceStart, source, replaced,
                [imports EXCEPT ![i] = [start |-> range.start + sourceStart,
                                        end |-> range.end + sourceStart]],
                i + 1)

(* The specifiers of the imports: the component A.vue, the plain file b.ts *)
(* and a component Z.vue that is not in the project.                       *)
Specifiers ==
    {<<"A", ".", "v", "u", "e">>, <<"b", ".", "t", "s">>,
     <<"Z", ".", "v", "u", "e">>}

(* join(dirname(path), text) for a specifier of a one-letter name and an   *)
(* extension, the importer being in the project's directory.               *)
ImportedPath(text) ==
    Path("proj", Head(text),
         IF endsWith(text, <<".", "v", "u", "e">>) THEN ".vue" ELSE ".ts", <<>>)

(* virtualText.slice(0, offset) + `.${importedFile.virtualLang}`.padStart(4, "_") *)
(* + virtualText.slice(offset + 4)                                         *)
PatchSuffix(virtualText, offset, virtualLang) ==
    JsSlice(virtualText, 0, offset)
    \o VirtualSuffix(virtualLang)
    \o JsSlice(virtualText, offset + 4, Len(virtualText))

(* The loop of generate() over sourceFile.imports, from the range at index *)
(* i on: the text is patched at the first generated offset of the closing  *)
(* quote when the imported file is a registered component.                 *)
RECURSIVE PatchImports(_, _, _, _, _)
PatchImports(sourceText, imports, mappings, virtualText, i) ==
    IF i > Len(imports) THEN virtualText
    ELSE LET range == imports[i]
             imported == ImportedPath(JsSlice(sourceText, range.start + 1,
                                              range.end - 1))
             isVirtual == /\ imported \in DOMAIN sourceToTarget
                          /\ sourceToTarget[imported].type = "virtual"
             offsets == toGeneratedLocation(mappings, range.end - 1)
             patched == IF isVirtual /\ offsets # <<>>
                        THEN PatchSuffix(virtualText, offsets[1],
                                         sourceToTarget[imported].virtualLang)
                        ELSE virtualText
         IN PatchImports(sourceText, imports, mappings, patched, i + 1)

(* The script of the importer: one statement per specifier, each on its    *)
(* own line; the range of a specifier runs from its opening quote to after *)
(* its closing quote, relative to the script block.                        *)
RECURSIVE ScriptOf(_, _)
ScriptOf(texts, at) ==
    IF texts = <<>> THEN [content |-> <<"a">>, imports |-> <<>>]
    ELSE LET statement == <<"i", "\"">> \o Head(texts) \o <<"\"", ";", NL>>
             rest == ScriptOf(Tail(texts), at + Len(statement))
         IN [content |-> statement \o rest.content,
             imports |-> <<[start |-> at + 1,
                            end |-> at + 3 + Len(Head(texts))]>>
                         \o rest.imports]

(* The scripts a component may have. *)
ImporterScripts ==
    {ScriptOf(texts, 0) : texts \in SeqsUpTo(Specifiers, MaxImports) \ {<<>>}}

(* <script lang="..."> of the imported component: any text. *)
ScriptLangs ==
    {<<"t", "s">>, <<"j", "s">>, <<"t", "s", "x">>, <<"j", "s", "x">>,
     <<"c", "o", "f", "f", "e", "e">>}

ImportedFiles(virtualLang) ==
    (VuePath :> createSourceFile(VuePath, TargetPathOf(VuePath), VueSourceText,
                                 <<Literal(<<"a">>)>>, <<>>, virtualLang))
    @@ (TsPath :> createSourceFile(TsPath, TargetPathOf(TsPath), TsSourceText,
                                   <<>>, <<>>, DefaultLang))

ImportInit ==
    /\ LineIdle
    /\ codes = <<>>
    /\ blocks = [b \in {"script"} |-> BlockStart]
    /\ built = NotBuilt
    /\ mapPc = "emitting"
    /\ boundaries = <<>>
    /\ \E s \in ImporterScripts :
         script = [sourceText |-> [k \in 1..BlockStart |-> "a"] \o s.content,
                   imports |-> s.imports]
    /\ emitted = <<>>
    /\ sourceToTarget \in {ImportedFiles(lang) : lang \in ScriptLangs}
    /\ targetToSource = (TargetPathOf(VuePath) :> VuePath)
                        @@ (TargetPathOf(TsPath) :> TsPath)
    /\ includeSet = <<VuePath, TsPath>>
    /\ excludeSet = {}
    /\ processed = 2
    /\ disk = {}
    /\ configPath = DefaultConfig
    /\ configs = {}
    /\ pc = "ready"
    /\ stdout = <<>>
    /\ checkerExit = "none"
    /\ checkerRuns = 0
    /\ parsed = <<>>
    /\ groups = <<>>
    /\ groupIdx = 0
    /\ output = <<>>
    /\ withoutError = TRUE
    /\ result = "none"

(* createVirtualFile for the importer. *)
ComposeImporter ==
    /\ mapPc = "emitting"
    /\ LET sourceStart == blocks["script"]
           content == JsSlice(script.sourceText, sourceStart,
                              Len(script.sourceText))
           generated == <<Literal(<<"a">>),
                          Mapped(content, "script", 0,
                                 CodeInformation("true", ""))>>
           transformed == transformImportRanges(content, sourceStart, "script",
                                                generated, script.imports, 1)
       IN /\ codes' = transformed.codes
          /\ script' = [script EXCEPT !.imports = transformed.imports]
          /\ built' = createVirtualFile(transformed.codes, blocks)
    /\ mapPc' = "built"
    /\ UNCHANGED <<blocks, boundaries, emitted>>
    /\ UNCHANGED <<lineVars, projectVars, checkVars>>

(* The body of the loop of generate() for the importer: patch, writeFile. *)
WriteVirtualFile ==
    /\ mapPc = "built"
    /\ emitted' = PatchImports(script.sourceText, script.imports,
                               built.mappings, built.virtualText, 1)
    /\ mapPc' = "written"
    /\ UNCHANGED <<codes, blocks, built, boundaries, script>>
    /\ UNCHANGED <<lineVars, projectVars, checkVars>>

ImportNext == ComposeImporter \/ WriteVirtualFile

SpecImport == ImportInit /\ [][ImportNext]_vars

(***************************************************************************)
(* Properties.                                                             *)
(***************************************************************************)
MappedIndices(cs) == {i \in 1..Len(cs) : ~cs[i].lit}

TokenIndices(cs, t) == {i \in MappedIndices(cs) : cs[i].data.token = t}

RECURSIVE Ascending(_)
Ascending(S) ==
    IF S = {} THEN <<>>
    ELSE LET m == CHOOSE x \in S : \A y \in S : x <= y
         IN <<m>> \o Ascending(S \ {m})

RECURSIVE TextLengthBefore(_, _)
TextLengthBefore(cs, i) ==
    IF i <= 1 THEN 0 ELSE TextLengthBefore(cs, i - 1) + Len(cs[i - 1].text)

(* The mapped fragments that open an entry: untokened ones and the first   *)
(* fragment of each token.                                                 *)
EntryStarts(cs) ==
    {i \in MappedIndices(cs) :
        \/ cs[i].data.token = ""
        \/ \A j \in MappedIndices(cs) : j < i => cs[j].data.token # cs[i].data.token}

(* C1: the k mapped fragments that carry one combine token yield exactly   *)
(* one entry, whose three arrays list the k fragments in emission order,   *)
(* and the entry stands where the token's first fragment stands among the  *)
(* output entries.                                                         *)
C1_Compaction ==
    mapPc = "built" =>
        \A t \in Tokens :
            LET idx == Ascending(TokenIndices(built.codes, t))
                k == Len(idx)
                entries == {e \in 1..Len(built.mappings) :
                               built.mappings[e].data.token = t}
            IN k >= 1 =>
                /\ Cardinality(entries) = 1
                /\ \A e \in entries :
                    /\ built.mappings[e].sourceOffsets =
                           [n \in 1..k |-> built.codes[idx[n]].offset]
                    /\ built.mappings[e].generatedOffsets =
                           [n \in 1..k |-> TextLengthBefore(built.codes, idx[n])]
                    /\ built.mappings[e].lengths =
                           [n \in 1..k |-> Len(built.codes[idx[n]].text)]
                    /\ e = Cardinality({i \in EntryStarts(built.codes) : i <= idx[1]})

(* Two fragments of one token after an untokened mapped fragment: a merged  *)
(* entry in second position.                                               *)
C1_Witness ==
    /\ mapPc = "built"
    /\ Cardinality(TokenIndices(built.codes, "t1")) = 2
    /\ Len(built.mappings) = 2
    /\ built.mappings[2].data.token = "t1"
    /\ Len(built.mappings[2].sourceOffsets) = 2

(* The whole-file source offset of an emitted fragment. *)
RebasedOffset(code, blks) ==
    IF code.source \in DOMAIN blks THEN code.offset + blks[code.source]
    ELSE code.offset

(* C9: for every mapped fragment, with s its rebased source offset, the    *)
(* forward query of s yields some g whose unfiltered backward query        *)
(* yields s.                                                               *)
C9_RoundTrip ==
    mapPc = "built" =>
        \A i \in MappedIndices(codes) :
            LET s == RebasedOffset(codes[i], blocks)
                all == 1..Len(built.mappings)
            IN \E g \in SeqRange(toGeneratedLocation(built.mappings, s)) :
                   s \in SeqRange(toSourceLocation(built.mappings, {g}, all))

(* A rebased fragment merged as the second point of a token's entry. *)
C9_Witness ==
    /\ mapPc = "built"
    /\ Len(codes) = 3
    /\ ~codes[3].lit /\ codes[3].source = "template" /\ codes[3].data.token = "t2"
    /\ ~codes[1].lit /\ codes[1].data.token = "t2" /\ codes[1].offset # codes[3].offset
    /\ codes[2].lit
    /\ Len(built.mappings) = 1

(* The start offsets of the lines of a text: 0 and every offset that       *)
(* follows a newline.                                                      *)
LineStarts(text) == {0} \cup {i \in 1..Len(text) : text[i] = NL}

(* C10: line/column then offset returns the offset; the line is the        *)
(* greatest line whose start is <= the offset; both are 1-based.           *)
C10_LineColumnRoundTrip ==
    /\ lcPc = "back" => lcBack = {lcOffset}
    /\ lcPc \in {"position", "back"} =>
        LET starts == Ascending(LineStarts(lcText))
        IN /\ lcPos.line >= 1 /\ lcPos.column >= 1
           /\ lcPos.line <= Len(starts)
           /\ starts[lcPos.line] <= lcOffset
           /\ \A l \in 1..Len(starts) : starts[l] <= lcOffset => l <= lcPos.line
           /\ lcPos.column = lcOffset - starts[lcPos.line] + 1

(* An offset at the start of a later line, and one inside a later line. *)
C10_Witness ==
    /\ lcPc = "back"
    /\ lcPos.line = 2
    /\ lcPos.column = 2
    /\ lcOffset < Len(lcText)

(* The diagnostics as parseDiagnostics created them, by identity. *)
ParsedDiagnostics == {parsed[k] : k \in 1..Len(parsed)}

OutputIds == {output[k].id : k \in 1..Len(output)}

Resolved(d) == d.path \in DOMAIN targetToSource

FileOf(d) == sourceToTarget[targetToSource[d.path]]

(* The entries, among a set of them, with a range [g, g + length] that     *)
(* contains the generated offset of a position of the synthesized text.    *)
CoveringEntries(sourceFile, position, entries) ==
    {e \in entries :
        \E x \in getVirtualOffset(sourceFile, position.line, position.column) :
            \E i \in 1..Len(sourceFile.mappings[e].generatedOffsets) :
                /\ sourceFile.mappings[e].generatedOffsets[i] <= x
                /\ x <= sourceFile.mappings[e].generatedOffsets[i]
                            + sourceFile.mappings[e].lengths[i]}

AllEntries(sourceFile) == 1..Len(sourceFile.mappings)

Covered(sourceFile, position, code) ==
    CoveringEntries(sourceFile, position,
                    AcceptedEntries(sourceFile.mappings, code)) # {}

(* The group of a path has been through the loop of check(). *)
Handled(path) ==
    \/ pc = "returned"
    \/ /\ pc = "groups"
       /\ \E g \in 1..(groupIdx - 1) : groups[g].path = path
    \/ /\ pc = "threw"
       /\ \E g \in 1..Min(groupIdx, Len(groups)) : groups[g].path = path

(* C2: a diagnostic with code 2339 whose start or end is covered only by   *)
(* entries of the policy that reports every code except 2339 (and 2551) is *)
(* accepted by none of them and is not reported.                           *)
C2_Suppression ==
    \A k \in 1..Len(output) :
        LET d == parsed[output[k].id]
            suppressedAt(position) ==
                LET covering == CoveringEntries(FileOf(d), position,
                                                AllEntries(FileOf(d)))
                IN /\ covering # {}
                   /\ \A e \in covering :
                        FileOf(d).mappings[e].data.verification
                            = "doNotReportTs2339AndTs2551"
        IN (Resolved(d) /\ d.code = 2339) =>
                ~suppressedAt(d.start) /\ ~suppressedAt(d.end)

(* C3: a diagnostic reported at the path where generate() wrote a          *)
(* synthesized file, with start and end in regions mapped with             *)
(* verification true, is rendered under the original path at the original  *)
(* positions of those regions.                                             *)
C3_EndToEndRemap ==
    \A d \in ParsedDiagnostics : \A f \in disk :
        LET sourceFile == sourceToTarget[f.source]
            enabled == {e \in AllEntries(sourceFile) :
                           sourceFile.mappings[e].data.verification = "true"}
            inEnabled(position) ==
                /\ CoveringEntries(sourceFile, position, enabled) # {}
                /\ CoveringEntries(sourceFile, position, AllEntries(sourceFile))
                      \subseteq enabled
            original(position) ==
                getSourceLineAndColumn(sourceFile,
                    FirstOf(toSourceLocation(sourceFile.mappings,
                        getVirtualOffset(sourceFile, position.line, position.column),
                        enabled)))
        IN (/\ f.written /\ f.path = d.path /\ Handled(d.path)
            /\ inEnabled(d.start) /\ inEnabled(d.end)) =>
                \E k \in 1..Len(output) :
                    /\ output[k].id = d.id
                    /\ output[k].path = f.source
                    /\ output[k].start = original(d.start)
                    /\ output[k].end = original(d.end)

(* C4: a diagnostic of a file the project resolves whose start or end lies *)
(* where no accepted entry covers it is never in the output.               *)
C4_Discard ==
    \A k \in 1..Len(output) :
        LET d == parsed[output[k].id]
        IN Resolved(d) =>
            /\ Covered(FileOf(d), d.start, d.code)
            /\ Covered(FileOf(d), d.end, d.code)

(* The start maps, the end does not, and the diagnostic is not reported. *)
C4_Witness ==
    /\ pc = "returned"
    /\ \E d \in ParsedDiagnostics :
        /\ Resolved(d)
        /\ FileOf(d).type = "virtual"
        /\ Covered(FileOf(d), d.start, d.code)
        /\ RemapOffset(FileOf(d), d.start, d.code) \notin {{}, {0}}
        /\ d.end # NoPos
        /\ ~Covered(FileOf(d), d.end, d.code)
        /\ d.id \notin OutputIds

(* C5: a diagnostic whose two backward queries both yield a first source   *)
(* offset is kept, converted on the original text and re-homed.            *)
C5_Retention ==
    \A d \in ParsedDiagnostics :
        (Resolved(d) /\ Handled(d.path)) =>
            LET left == RemapOffset(FileOf(d), d.start, d.code)
                right == RemapOffset(FileOf(d), d.end, d.code)
            IN (left # {} /\ right # {}) =>
                \E k \in 1..Len(output) :
                    /\ output[k].id = d.id
                    /\ output[k].path = FileOf(d).sourcePath
                    /\ output[k].start = getSourceLineAndColumn(FileOf(d), left)
                    /\ output[k].end = getSourceLineAndColumn(FileOf(d), right)

(* C6: a diagnostic in a file the engine did not synthesize (a mirrored    *)
(* plain file, a file unknown to the project) is reported at the           *)
(* checker's positions, with only the cache root rewritten in its path.    *)
C6_PassThrough ==
    \A d \in ParsedDiagnostics :
        LET mirrored == \E f \in disk : ~f.written /\ f.path = d.path
            unknown == d.path.root # "cache" /\ ~Resolved(d)
        IN ((mirrored \/ unknown) /\ Handled(d.path)) =>
                \E k \in 1..Len(output) :
                    /\ output[k].id = d.id
                    /\ output[k].start = d.start
                    /\ output[k].end = d.end
                    /\ output[k].path =
                          IF d.path.root = "cache"
                          THEN [d.path EXCEPT !.root = "proj"] ELSE d.path

(* C7: when the checker fails without output, check() does not return      *)
(* normally and the checker is started once.                               *)
C7_HardFailure ==
    checkerExit = "failed" => (pc # "returned" /\ checkerRuns = 1)

(* C8: no exception leaves the processing of the checker's output. *)
C8_NoException == pc # "threw"

(* The output has been parsed. *)
AfterParse == pc \in {"groups", "returned", "threw"}

HeaderIndices == {h \in 1..Len(stdout) : stdout[h].header}

(* The rank of the header at index h among the headers: the id of the      *)
(* diagnostic parsed from it.                                              *)
Rank(h) == Cardinality({g \in HeaderIndices : g <= h})

SourceRows ==
    {SourceRow(number, width) : number \in 1..(9 + MaxRows), width \in 1..2}

IsUnderlineRow(l) == ~l.header /\ l.lastTilde >= 0 /\ l.gutter = 0

(* Index h starts a well-formed block of n pairs: header, blank line, n    *)
(* pairs of source row and underline row, then only blank lines up to the  *)
(* next header or the end of the output.                                   *)
WellFormedAt(h, n) ==
    /\ h \in HeaderIndices
    /\ h + 1 + 2 * n <= Len(stdout)
    /\ stdout[h + 1] = BlankLine
    /\ \A k \in 0..(n - 1) :
         /\ stdout[h + 2 + 2 * k] \in SourceRows
         /\ IsUnderlineRow(stdout[h + 3 + 2 * k])
    /\ \A j \in (h + 2 + 2 * n)..Len(stdout) :
         (\A g \in (h + 1)..j : ~stdout[g].header) => stdout[j] = BlankLine

(* C11: for a well-formed diagnostic block (header, blank line, n >= 1     *)
(* pairs of source row and underline row) parseDiagnostics sets the end    *)
(* line to startLine + n - 1 and the end column to the index of the last   *)
(* tilde of the last underline row + 1 - the gutter width of the source    *)
(* row before it.                                                          *)
C11_ParsedEnd ==
    AfterParse =>
        \A h \in HeaderIndices, n \in 1..(MaxRows + 1) :
            (WellFormedAt(h, n) /\ Rank(h) <= Len(parsed)) =>
                parsed[Rank(h)].end =
                    [line |-> stdout[h].line + n - 1,
                     column |-> stdout[h + 1 + 2 * n].lastTilde + 1
                                  - stdout[h + 2 * n].gutter]

(* A block of two pairs starting at line 9 has been parsed, its end is on  *)
(* line 10 under the last of MaxTildes tildes, and another block follows.   *)
C11_Witness ==
    /\ pc = "returned"
    /\ \E h \in HeaderIndices :
         /\ WellFormedAt(h, 2)
         /\ stdout[h].line = 9
         /\ parsed[Rank(h)].end.line = 10
         /\ parsed[Rank(h)].end.column = MaxTildes + 1
         /\ Len(parsed) > Rank(h)

(* Index h starts a block with c message continuation lines and n pairs of *)
(* source row and underline row, followed only by blank lines up to the    *)
(* next header or the end of the output.                                   *)
BlockAt(h, c, n) ==
    /\ h \in HeaderIndices
    /\ h + c + 1 + 2 * n <= Len(stdout)
    /\ \A k \in 1..c : stdout[h + k] = ContinuationLine
    /\ stdout[h + c + 1] = BlankLine
    /\ \A k \in 0..(n - 1) :
         /\ stdout[h + c + 2 + 2 * k] \in SourceRows
         /\ IsUnderlineRow(stdout[h + c + 3 + 2 * k])
    /\ \A j \in (h + c + 2 + 2 * n)..Len(stdout) :
         (\A g \in (h + 1)..j : ~stdout[g].header) => stdout[j] = BlankLine

(* The block has no underline row (absent), or its rows are displaced by   *)
(* an odd number of continuation lines.                                    *)
MalformedAt(h) ==
    \E c \in 0..(MaxCont + 1), n \in 0..(MaxRows + 1) :
        BlockAt(h, c, n) /\ (n = 0 \/ c % 2 = 1)

(* check() threw while it handled the group of a path. *)
ThrewIn(path) ==
    /\ pc = "threw"
    /\ groupIdx \in 1..Len(groups)
    /\ groups[groupIdx].path = path

Unrecognized == NoiseLines \cup {ContinuationLine}

Recognized(lines) == SelectSeq(lines, LAMBDA l : l \notin Unrecognized)

(* C13: a line that is no header, source row or underline row of a block   *)
(* creates no diagnostic and changes no field of a parsed diagnostic: the  *)
(* diagnostics parsed are as many as the header lines, and they are the    *)
(* ones parsed from the output without those lines.                        *)
C13_UnrecognizedIgnored ==
    AfterParse =>
        /\ Len(parsed) = CountHeaders(stdout)
        /\ parsed = parseDiagnostics(Recognized(stdout)).diagnostics

(* The same for message continuation lines only, the other lines being     *)
(* left where they are.                                                    *)
C13_ContinuationIgnored ==
    AfterParse =>
        parsed = parseDiagnostics(
                    SelectSeq(stdout, LAMBDA l : l # ContinuationLine)).diagnostics

(* The columns (1-based) under which an underline row has a tilde. *)
Underlined(row) == (row.columnStart + 1)..(row.columnStart + row.tildes)

(* The original text of a rendered diagnostic, split into lines. *)
OriginalLines(e) == SplitLines(FileSystem[e.path])

(* All the lines start.line..end.line of the diagnostic were printed with  *)
(* their underline rows.                                                   *)
Surfaced(e) ==
    /\ e.start.line >= 1
    /\ e.end.line >= e.start.line
    /\ e.end.line <= Len(OriginalLines(e))
    /\ Len(e.rows) = e.end.line - e.start.line + 1
    /\ \A i \in 1..Len(e.rows) : e.rows[i].underlined

(* C14: the tildes of a surfaced diagnostic run from startCol to the end   *)
(* of the first spanned line, over every interior line, and from column 1  *)
(* up to endCol on the last spanned line; on a single line they are the    *)
(* endCol - startCol columns from startCol on.                             *)
C14_UnderlineCoverage ==
    \A k \in 1..Len(output) :
        LET e == output[k]
            last == e.end.line - e.start.line + 1
        IN Surfaced(e) =>
            \A i \in 1..last :
                LET length == Len(OriginalLines(e)[e.start.line + i - 1])
                    from == IF i = 1 THEN e.start.column ELSE 1
                    upTo == IF i = last THEN e.end.column - 1 ELSE length
                IN /\ e.rows[i].number = e.start.line + i - 1
                   /\ Underlined(e.rows[i]) = from..upTo

(* A diagnostic of two lines that starts at column MaxCol of line 9 has    *)
(* been rendered.                                                          *)
C14_Witness ==
    /\ pc = "returned"
    /\ \E k \in 1..Len(output) :
         /\ Surfaced(output[k])
         /\ output[k].start = [line |-> 9, column |-> MaxCol]
         /\ output[k].end.line = 10
         /\ output[k].rows[1].tildes = 1
         /\ output[k].rows[2].tildes = output[k].end.column - 1

(* C15: under every printed source row the blank gutter of the underline   *)
(* row is as wide as the line-number gutter of the source row.             *)
C15_GutterWidth ==
    \A k \in 1..Len(output) : \A i \in 1..Len(output[k].rows) :
        output[k].rows[i].underlined =>
            output[k].rows[i].blankWidth = output[k].rows[i].numberWidth

(* The invocations of generateBoundary whose closer has been yielded. *)
Closed == {b \in 1..Len(boundaries) : boundaries[b].close # 0}

TokenOf(b) == codes[boundaries[b].open].data.token

(* The closer is zero-length, at the given end offset, with the opener's   *)
(* provenance and combine token.                                           *)
C16_ClosePlacement ==
    \A b \in Closed :
        LET opener == codes[boundaries[b].open]
            closer == codes[boundaries[b].close]
        IN /\ ~closer.lit
           /\ closer.text = <<>>
           /\ closer.offset = boundaries[b].end
           /\ closer.source = opener.source
           /\ closer.data.token = opener.data.token

(* C16: the closing fragment of a boundary is zero-length, is placed at    *)
(* the given end offset with the opener's provenance, and carries the same *)
(* combine token and the same metadata (verification policy) as the        *)
(* opening fragment.                                                       *)
C16_CloseMarker ==
    /\ C16_ClosePlacement
    /\ \A b \in Closed :
         codes[boundaries[b].close].data = codes[boundaries[b].open].data

(* C17: every invocation of generateBoundary has a token of its own, and   *)
(* an entry of the position map never holds fragments of two boundaries:   *)
(* an entry with a token holds the opener of one boundary and, once        *)
(* yielded, its closer, and nothing else.                                  *)
C17_FreshToken ==
    /\ \A a, b \in 1..Len(boundaries) : a # b => TokenOf(a) # TokenOf(b)
    /\ mapPc = "built" =>
         \A e \in 1..Len(built.mappings) :
            built.mappings[e].data.token # "" =>
                \E b \in 1..Len(boundaries) :
                    /\ TokenOf(b) = built.mappings[e].data.token
                    /\ built.mappings[e].generatedOffsets =
                         <<TextLengthBefore(codes, boundaries[b].open)>>
                         \o (IF b \in Closed
                             THEN <<TextLengthBefore(codes, boundaries[b].close)>>
                             ELSE <<>>)

(* A boundary nested in another one with the same provenance, start offset *)
(* and features; the map has one entry of two offsets for each.            *)
C17_Witness ==
    /\ mapPc = "built"
    /\ \E a, b \in Closed :
         /\ boundaries[a].open < boundaries[b].open
         /\ boundaries[b].close < boundaries[a].close
         /\ boundaries[a].source = boundaries[b].source
         /\ boundaries[a].start = boundaries[b].start
         /\ boundaries[a].features = boundaries[b].features
    /\ Len(built.mappings) = 2
    /\ \A e \in 1..2 : Len(built.mappings[e].generatedOffsets) = 2

(* C18: in every entry createMappings returns, generatedOffsets is         *)
(* non-decreasing from index to index and the three arrays have the same   *)
(* length.                                                                 *)
C18_OffsetMonotonicity ==
    mapPc = "built" =>
        \A e \in 1..Len(built.mappings) :
            LET m == built.mappings[e]
            IN /\ Len(m.sourceOffsets) = Len(m.generatedOffsets)
               /\ Len(m.lengths) = Len(m.generatedOffsets)
               /\ \A i, j \in 1..Len(m.generatedOffsets) :
                    i < j => m.generatedOffsets[i] <= m.generatedOffsets[j]

(* An entry merged from three fragments: two at the same generated offset  *)
(* (the first is empty) and one further on.                                *)
C18_Witness ==
    /\ mapPc = "built"
    /\ \E e \in 1..Len(built.mappings) :
         LET m == built.mappings[e]
         IN /\ Len(m.generatedOffsets) = 3
            /\ m.generatedOffsets[1] = m.generatedOffsets[2]
            /\ m.generatedOffsets[2] < m.generatedOffsets[3]

(* The entries of a file whose verification is false or absent, or an      *)
(* object without a predicate.                                             *)
RejectedEntries(sourceFile) ==
    {e \in AllEntries(sourceFile) :
        sourceFile.mappings[e].data.verification \in {"false", "absent", "object"}}

EnabledEntries(sourceFile) ==
    {e \in AllEntries(sourceFile) :
        sourceFile.mappings[e].data.verification = "true"}

(* The position is in some entry, and only in rejected ones. *)
RejectedAt(sourceFile, position) ==
    LET covering == CoveringEntries(sourceFile, position, AllEntries(sourceFile))
    IN covering # {} /\ covering \subseteq RejectedEntries(sourceFile)

(* C19: for every diagnostic code the remap predicate accepts an entry     *)
(* whose verification is true and rejects one whose verification is false  *)
(* or absent or an object without a predicate; a diagnostic whose start or *)
(* end is covered only by rejected entries is not reported.                *)
C19_UnconditionalPolicies ==
    /\ \A p \in DOMAIN sourceToTarget : \A code \in DiagnosticCodes :
         LET accepted == AcceptedEntries(sourceToTarget[p].mappings, code)
         IN /\ EnabledEntries(sourceToTarget[p]) \subseteq accepted
            /\ RejectedEntries(sourceToTarget[p]) \cap accepted = {}
    /\ \A k \in 1..Len(output) :
         LET d == parsed[output[k].id]
         IN Resolved(d) =>
                /\ ~RejectedAt(FileOf(d), d.start)
                /\ ~RejectedAt(FileOf(d), d.end)

(* The start is in an accepted region and maps, the end is in a region     *)
(* with an object without predicate only, and the diagnostic is dropped.   *)
C19_Witness ==
    /\ pc = "returned"
    /\ \E d \in ParsedDiagnostics :
         /\ Resolved(d)
         /\ FileOf(d).type = "virtual"
         /\ RemapOffset(FileOf(d), d.start, d.code) \notin {{}, {0}}
         /\ RejectedAt(FileOf(d), d.end)
         /\ \E e \in CoveringEntries(FileOf(d), d.end, AllEntries(FileOf(d))) :
                FileOf(d).mappings[e].data.verification = "object"
         /\ d.id \notin OutputIds

(* C20: the position map is built from the rebased fragments: a mapped     *)
(* fragment whose provenance is a known block gets the block's inner start *)
(* added to its offset and its provenance reset to the current file;       *)
(* literal fragments and mapped fragments of the current file, of "main"   *)
(* or of an unknown block are unchanged; no text or metadata changes.      *)
C20_Rebasing ==
    mapPc = "built" =>
        /\ Len(built.codes) = Len(codes)
        /\ built.mappings = createMappings(built.codes)
        /\ \A i \in 1..Len(codes) :
             LET code == codes[i]
                 rebased == built.codes[i]
             IN /\ rebased.lit = code.lit
                /\ rebased.text = code.text
                /\ rebased.data = code.data
                /\ IF ~code.lit /\ code.source \in DOMAIN blocks
                   THEN /\ rebased.source = ""
                        /\ rebased.offset = code.offset + blocks[code.source]
                   ELSE rebased = code

(* A file built from a fragment of a known block at a block-relative       *)
(* offset above 0, one of "main" and one of an unknown block.              *)
C20_Witness ==
    /\ mapPc = "built"
    /\ \E i, j, k \in 1..Len(codes) :
         /\ codes[i].source \in DOMAIN blocks
         /\ codes[i].offset > 0
         /\ built.codes[i].offset > codes[i].offset
         /\ codes[j].source = "main"
         /\ codes[k].source = "style_0"

(* parseDiagnostics has returned and no group has been handled yet. *)
JustParsed == pc = "groups" /\ groupIdx = 1

(* The places <<g, k>> of the groups that hold the diagnostic of an id. *)
PlacesOf(id) ==
    {p \in {<<g, k>> : g \in 1..Len(groups), k \in 1..MaxBlocks + 1} :
        /\ p[2] <= Len(groups[p[1]].diagnostics)
        /\ groups[p[1]].diagnostics[p[2]].id = id}

(* C21: parseDiagnostics groups the diagnostics by path: every parsed      *)
(* diagnostic is in exactly one group, the group of its path, unchanged,   *)
(* every member of a group is a parsed diagnostic, and the members of a    *)
(* group are in the order of their headers.                                *)
C21_Grouping ==
    JustParsed =>
        /\ \A g, h \in 1..Len(groups) : groups[g].path = groups[h].path => g = h
        /\ \A n \in 1..Len(parsed) :
             /\ Cardinality(PlacesOf(parsed[n].id)) = 1
             /\ \A p \in PlacesOf(parsed[n].id) :
                  /\ groups[p[1]].path = parsed[n].path
                  /\ groups[p[1]].diagnostics[p[2]] = parsed[n]
        /\ \A g \in 1..Len(groups) :
             /\ Len(groups[g].diagnostics) <= Len(parsed)
             /\ \A k \in 1..Len(groups[g].diagnostics) :
                  /\ groups[g].diagnostics[k] \in ParsedDiagnostics
                  /\ \A j \in 1..(k - 1) :
                       groups[g].diagnostics[j].id < groups[g].diagnostics[k].id

(* Two diagnostics of one file, the one at line 9 reported before the one  *)
(* at line 1, are in one group in that order.                              *)
C21_Witness ==
    /\ JustParsed
    /\ \E g \in 1..Len(groups) :
         /\ Len(groups[g].diagnostics) = 2
         /\ groups[g].diagnostics[1].start.line = 9
         /\ groups[g].diagnostics[2].start.line = 1

(* The points <<entry, index>> of a list of entries. *)
PointsOf(mappings) ==
    {p \in {<<e, n>> : e \in 1..Len(mappings), n \in 1..MaxCodes + 1} :
        p[2] <= Len(mappings[p[1]].generatedOffsets)}

(* The point a mapped fragment stands for: its source offset, the sum of   *)
(* the text lengths of the fragments before it, and its own text length.   *)
PointOfFragment(cs, i) ==
    <<cs[i].offset, TextLengthBefore(cs, i), Len(cs[i].text)>>

PointAt(mappings, p) ==
    <<mappings[p[1]].sourceOffsets[p[2]],
      mappings[p[1]].generatedOffsets[p[2]],
      mappings[p[1]].lengths[p[2]]>>

(* C22: the points of the entries are, one for one, the mapped fragments:  *)
(* the generated offset of a fragment's point is the sum of the text       *)
(* lengths of all fragments before it, literal or mapped, its length is    *)
(* the fragment's text length, the synthesized text carries the fragment's *)
(* text at that offset, and a literal contributes no point.                *)
C22_RunningLength ==
    mapPc = "built" =>
        /\ Cardinality(PointsOf(built.mappings)) =
               Cardinality(MappedIndices(built.codes))
        /\ \A i \in MappedIndices(built.codes) :
             LET point == PointOfFragment(built.codes, i)
             IN /\ Cardinality({p \in PointsOf(built.mappings) :
                                    PointAt(built.mappings, p) = point}) =
                       Cardinality({j \in MappedIndices(built.codes) :
                                    PointOfFragment(built.codes, j) = point})
                /\ SubSeq(built.virtualText, point[2] + 1, point[2] + point[3]) =
                       built.codes[i].text

(* A literal, then an empty mapped fragment, then a mapped fragment: both  *)
(* points are at the literal's length.                                     *)
C22_Witness ==
    /\ mapPc = "built"
    /\ Len(built.codes) = 3
    /\ built.codes[1].lit /\ Len(built.codes[1].text) > 0
    /\ ~built.codes[2].lit /\ built.codes[2].text = <<>>
    /\ ~built.codes[3].lit /\ Len(built.codes[3].text) > 0
    /\ Len(built.mappings) = 2
    /\ built.mappings[1].generatedOffsets = <<Len(built.codes[1].text)>>
    /\ built.mappings[2].generatedOffsets = <<Len(built.codes[1].text)>>

(* The ids of a list of diagnostics, in order. *)
IdsOf(diagnostics) == [k \in 1..Len(diagnostics) |-> diagnostics[k].id]

(* The parsed diagnostics of a path, in header order. *)
ParsedAt(path) ==
    LET RECURSIVE From(_)
        From(n) == IF n > Len(parsed) THEN <<>>
                   ELSE (IF parsed[n].path = path THEN <<parsed[n]>> ELSE <<>>)
                        \o From(n + 1)
    IN From(1)

(* The diagnostics of a list whose id is in a set, in order. *)
RECURSIVE Kept(_, _)
Kept(diagnostics, ids) ==
    IF diagnostics = <<>> THEN <<>>
    ELSE (IF Head(diagnostics).id \in ids THEN <<Head(diagnostics)>> ELSE <<>>)
         \o Kept(Tail(diagnostics), ids)

(* Both backward queries of a diagnostic yield a source offset. *)
BothRemapped(d) ==
    /\ RemapOffset(FileOf(d), d.start, d.code) # {}
    /\ RemapOffset(FileOf(d), d.end, d.code) # {}

(* The groups of resolved files that have been through the remap loop. *)
RemappedGroups ==
    {g \in 1..Len(groups) :
        groups[g].path \in DOMAIN targetToSource /\ Handled(groups[g].path)}

(* C23: after the remap loop the list of a resolved file is the            *)
(* subsequence, in order, of its diagnostics whose start and end both      *)
(* remapped, and a diagnostic outside it is not rendered.                  *)
C23_RemapPass ==
    \A g \in RemappedGroups :
        LET survivors == Kept(ParsedAt(groups[g].path),
                              {d.id : d \in {x \in ParsedDiagnostics :
                                                Resolved(x) /\ BothRemapped(x)}})
        IN /\ IdsOf(groups[g].diagnostics) = IdsOf(survivors)
           /\ \A d \in SeqRange(ParsedAt(groups[g].path)) :
                d.id \in OutputIds => d.id \in SeqRange(IdsOf(survivors))

(* The test of the loop: neither first source offset is falsy. *)
NotSplicedOut(d) ==
    ~Unmappable(RemapOffset(FileOf(d), d.start, d.code),
                RemapOffset(FileOf(d), d.end, d.code))

(* The loop with splice(i--, 1) examines every diagnostic once: the list   *)
(* left is the subsequence, in order, of the diagnostics that pass the     *)
(* test of the loop, and no other diagnostic of the file is rendered.      *)
C23_InPlaceRemoval ==
    \A g \in RemappedGroups :
        LET survivors == Kept(ParsedAt(groups[g].path),
                              {d.id : d \in {x \in ParsedDiagnostics :
                                                Resolved(x) /\ NotSplicedOut(x)}})
        IN /\ IdsOf(groups[g].diagnostics) = IdsOf(survivors)
           /\ \A d \in SeqRange(ParsedAt(groups[g].path)) :
                d.id \in OutputIds => d.id \in SeqRange(IdsOf(survivors))

(* Two diagnostics of one resolved file, the first spliced out and the     *)
(* second kept and rendered.                                               *)
C23_RemovalWitness ==
    /\ pc = "returned"
    /\ \E g \in RemappedGroups :
         /\ Len(ParsedAt(groups[g].path)) = 2
         /\ ~NotSplicedOut(ParsedAt(groups[g].path)[1])
         /\ IdsOf(groups[g].diagnostics) = <<ParsedAt(groups[g].path)[2].id>>
         /\ ParsedAt(groups[g].path)[2].id \in OutputIds

(* createProject has processed every file of includeSet. *)
FilesProcessed == pc # "created"

(* C24: once the files are processed, targetToSource maps the targetPath   *)
(* of every registered source file, the path generate() writes or links,   *)
(* to that file.                                                           *)
C24_TargetLookup ==
    FilesProcessed =>
        \A p \in DOMAIN sourceToTarget :
            /\ sourceToTarget[p].targetPath \in DOMAIN targetToSource
            /\ targetToSource[sourceToTarget[p].targetPath] = p

(* C25: check() returns true exactly when no diagnostic was rendered in    *)
(* the run, which is when every group is empty after its remap pass, and   *)
(* false exactly when at least one was rendered.                           *)
C25_CheckResult ==
    /\ pc = "returned" =>
         /\ result \in {"true", "false"}
         /\ result = "true" <=> output = <<>>
         /\ result = "false" <=> output # <<>>
         /\ output = <<>> <=> \A g \in 1..Len(groups) : groups[g].diagnostics = <<>>
    /\ pc # "returned" => result = "none"
    /\ pc = "groups" => (withoutError <=> output = <<>>)

(* A run with two groups: the first is emptied by the remap pass, the      *)
(* diagnostic of the second is passed through and rendered, and check()    *)
(* returns false.                                                          *)
C25_Witness ==
    /\ pc = "returned"
    /\ result = "false"
    /\ Len(groups) = 2
    /\ groups[1].diagnostics = <<>>
    /\ Len(groups[2].diagnostics) = 1
    /\ Len(output) = 1

(* Position a is not after position b. *)
NotAfter(a, b) ==
    a.line < b.line \/ (a.line = b.line /\ a.column <= b.column)

(* No underline row of a remapped diagnostic has a negative number of     *)
(* tildes.                                                                 *)
C26_TildeRun ==
    \A k \in 1..Len(output) :
        Resolved(parsed[output[k].id]) =>
            \A r \in 1..Len(output[k].rows) : output[k].rows[r].tildes >= 0

(* C26: a diagnostic of a resolved file that survives the remap pass has   *)
(* its remapped start not after its remapped end, and so no underline row  *)
(* of it has a negative number of tildes.                                  *)
C26_OrderedSpan ==
    /\ \A k \in 1..Len(output) :
         Resolved(parsed[output[k].id]) =>
            NotAfter(output[k].start, output[k].end)
    /\ C26_TildeRun

(* The loop over includeSet has ended, normally or by a rejected readFile. *)
LoopEnded == pc # "created"

(* Every path of includeSet is registered and none is excluded. *)
WorklistClosed ==
    \A k \in 1..Len(includeSet) :
        /\ includeSet[k] \in DOMAIN sourceToTarget
        /\ includeSet[k] \notin excludeSet

(* C27: the loop over includeSet ends for every reference graph, and once  *)
(* it has ended normally every path of includeSet has a source file in     *)
(* sourceToTarget and none is in excludeSet, so generate() finds a source  *)
(* file for every path and writes or links each of them.                   *)
C27_WorklistClosure ==
    /\ <>LoopEnded
    /\ [](pc = "ready" => WorklistClosed)
    /\ [](pc = "running" =>
            /\ WorklistClosed
            /\ \A k \in 1..Len(includeSet) :
                 \E f \in disk : f.source = includeSet[k])

(* Two files that reference each other, one of them also referencing an    *)
(* excluded file: the loop has ended with the two files and without the    *)
(* excluded one.                                                           *)
C27_Witness ==
    /\ pc = "ready"
    /\ excludeSet = {LibPath}
    /\ includeSet = <<VuePath, TsPath>>
    /\ sourceToTarget[VuePath].references = <<TsPath, LibPath>>
    /\ sourceToTarget[TsPath].references = <<VuePath>>

(* The combine tokens the fragments of a list carry. *)
TokensIn(cs) == {cs[i].data.token : i \in MappedIndices(cs)} \ {""}

(* C28: the entry merged for a combine token carries the metadata of the   *)
(* first fragment emitted with the token, so the remap predicate answers   *)
(* for the entry, and with it for every one of its points, what it answers *)
(* for that fragment.                                                      *)
C28_OpenerPolicy ==
    mapPc = "built" =>
        \A t \in TokensIn(built.codes) :
            LET first == Ascending(TokenIndices(built.codes, t))[1]
            IN \A e \in 1..Len(built.mappings) :
                 built.mappings[e].data.token = t =>
                    /\ built.mappings[e].data = built.codes[first].data
                    /\ \A code \in DiagnosticCodes :
                         isVerificationEnabled(built.mappings[e].data, code)
                            = isVerificationEnabled(built.codes[first].data, code)

(* A boundary opened with verification true and closed by a fragment that  *)
(* carries the token only: one entry of two points with verification true. *)
C28_Witness ==
    /\ mapPc = "built"
    /\ \E b \in 1..Len(boundaries) :
         /\ boundaries[b].close > boundaries[b].open
         /\ built.codes[boundaries[b].open].data.verification = "true"
         /\ built.codes[boundaries[b].close].data.verification = "absent"
         /\ \E e \in 1..Len(built.mappings) :
              /\ built.mappings[e].data = built.codes[boundaries[b].open].data
              /\ Len(built.mappings[e].generatedOffsets) = 2

(* C29: whenever the checker has been started with <cacheRoot>/tsconfig.json, *)
(* generate() has written a file at that path since it wiped the cache     *)
(* directory, wherever the project configuration lies under the mutual     *)
(* root and whatever its file name.                                        *)
C29_CheckerConfigExists ==
    pc = "running" => CheckerConfig \in configs

(* The imports of the importer whose file is a registered component. *)
PatchedImports ==
    {i \in 1..Len(script.imports) :
        LET imported == ImportedPath(JsSlice(script.sourceText,
                                             script.imports[i].start + 1,
                                             script.imports[i].end - 1))
        IN /\ imported \in DOMAIN sourceToTarget
           /\ sourceToTarget[imported].type = "virtual"}

(* C30: the text generate() writes for a component that imports           *)
(* components has the length and the line starts of the synthesized text,  *)
(* and differs from it only where the synthesized text has the blanks of   *)
(* a placeholder, whatever the script language of the imported component.  *)
C30_ImportPatch ==
    mapPc = "written" =>
        /\ Len(emitted) = Len(built.virtualText)
        /\ LineOffsets(emitted) = LineOffsets(built.virtualText)
        /\ \A k \in 1..Len(built.virtualText) :
             (k <= Len(emitted) /\ built.virtualText[k] # " ") =>
                emitted[k] = built.virtualText[k]

(* The same for the script languages of at most three characters. *)
C30_ShortLangs ==
    (mapPc = "written" /\ Len(sourceToTarget[VuePath].virtualLang) <= 3) =>
        /\ Len(emitted) = Len(built.virtualText)
        /\ LineOffsets(emitted) = LineOffsets(built.virtualText)
        /\ \A k \in 1..Len(built.virtualText) :
             built.virtualText[k] # " " => emitted[k] = built.virtualText[k]
        /\ PatchedImports # {} => emitted # built.virtualText

====
